---- MODULE Spec2Model ----
(***************************************************************************)
(* Webhook delivery subsystem of platform-core                             *)
(* (app/modules/webhooks/service.py, app/modules/webhooks/models.py).      *)
(*                                                                         *)
(* The relational store is modelled as three tables (functions from the    *)
(* autoincrement primary key to the row).  A call of _deliver_webhook that *)
(* has been handed to BackgroundTasks / asyncio.create_task is a task in   *)
(* the bag `tasks`: "scheduled" until its first statement runs, "posting"  *)
(* while the HTTP POST is outstanding, and removed when it returns.        *)
(* Optional[T] values are sequences: <<>> is None and <<x>> is x.          *)
(* Time is in seconds.  Endpoint fields that no modelled operation reads   *)
(* (name, url, description, timeout_seconds, created_by) are left out.     *)
(***************************************************************************)
EXTENDS Integers, Sequences, FiniteSets, Bags, TLC

VARIABLES
    endpoints,          \* webhook_endpoints: id -> row
    subscriptions,      \* webhook_subscriptions: id -> row
    deliveries,         \* webhook_deliveries: id -> row
    endpoint_seq,       \* last primary key handed out, per table
    subscription_seq,
    delivery_seq,
    tasks,              \* bag of _deliver_webhook calls not yet returned
    now,                \* datetime.utcnow(), seconds
    ret,                \* the last call: its name, arguments and return value
    posts,              \* the outbound traffic: delivery id -> POSTs issued for it
    reached_cap,        \* history: deliveries seen at rest with attempt_count >= retry_count
    notifications,      \* notifications: id -> row
    notification_seq,
    placeholder,        \* history: delivery id -> the last next_retry_at a sweep wrote
    frames,             \* calls suspended at an await: invocation -> its local variables
    feature_flags,      \* featureflag: key -> row
    flag_cache,         \* Redis: cache key -> cached flag data
    config_items,       \* configitem: id -> row
    config_history      \* confighistory: the rows, as a set

vars == <<endpoints, subscriptions, deliveries, endpoint_seq, subscription_seq,
          delivery_seq, tasks, now, ret, posts, reached_cap,
          notifications, notification_seq, placeholder, frames,
          feature_flags, flag_cache, config_items, config_history>>

\* the tables and state of the webhooks module
webhook_vars == <<endpoints, subscriptions, deliveries, endpoint_seq, subscription_seq,
                  delivery_seq, tasks, posts, reached_cap, placeholder, frames>>

\* the tables and caches of the feature flag and configuration modules
flag_vars == <<feature_flags, flag_cache>>
config_vars == <<config_items, config_history>>

----------------------------------------------------------------------------
(* Bounds of the model *)

MaxEndpoints == 2
MaxSubscriptions == 2
MaxDeliveries == 2
MaxTasks == 2
MaxNow == 120
MaxNotifications == 3
TickSeconds == 120

----------------------------------------------------------------------------
(* Python values *)

None == <<>>
Some(x) == <<x>>

\* bool(x) of an Optional[str]: None and "" are false
TruthyStr(o) == o # None /\ o[1] # ""

\* bool(x) of an Optional[dict]: None and {} are false
TruthyDict(o) == o # None /\ DOMAIN o[1] # {}

\* (mutant) an update that keeps the values already present
DictUpdate_KeepsOld(a, b) ==
    [k \in DOMAIN a \cup DOMAIN b |-> IF k \in DOMAIN a THEN a[k] ELSE b[k]]

\* dict.update: the entries of `b` override those of `a`
DictUpdate(a, b) ==
    [k \in DOMAIN a \cup DOMAIN b |-> IF k \in DOMAIN b THEN b[k] ELSE a[k]]

EmptyDict == [k \in {} |-> ""]

\* every enumeration of a finite set (the row order of a query with no ORDER BY)
RECURSIVE Orders(_)
Orders(S) ==
    IF S = {} THEN {<<>>}
    ELSE UNION {{<<x>> \o s : s \in Orders(S \ {x})} : x \in S}

----------------------------------------------------------------------------
(* models.py *)

ACTIVE == "active"
INACTIVE == "inactive"
FAILED == "failed"
WebhookStatus == {ACTIVE, INACTIVE, FAILED}

\* (mutant) a row that starts with no attempt counted
NewDelivery_ZeroAttempts(endpoint_id, event_type, payload) ==
    [endpoint_id     |-> endpoint_id,
     event_type      |-> event_type,
     payload         |-> payload,
     request_headers |-> None,
     response_status |-> None,
     response_body   |-> None,
     success         |-> FALSE,
     attempt_count   |-> 0,
     completed_at    |-> None,
     next_retry_at   |-> None]

\* Column defaults of WebhookDelivery
NewDelivery(endpoint_id, event_type, payload) ==
    [endpoint_id     |-> endpoint_id,
     event_type      |-> event_type,
     payload         |-> payload,
     request_headers |-> None,
     response_status |-> None,
     response_body   |-> None,
     success         |-> FALSE,
     attempt_count   |-> 1,
     completed_at    |-> None,
     next_retry_at   |-> None]

\* Column defaults of WebhookEndpoint
NewEndpoint(retry_count, secret, headers) ==
    [status      |-> ACTIVE,
     retry_count |-> retry_count,
     secret      |-> secret,
     headers     |-> headers]

----------------------------------------------------------------------------
(* The result of the last call *)

\* `http` is the response of the route, for the routes whose response is modelled
Ret(op, id, ids, count) ==
    [op |-> op, id |-> id, ids |-> ids, count |-> count, raised |-> FALSE,
     http |-> None]

\* a route's response: FastAPI answers 200 unless the decorator gives a status_code
HttpResponse(status_code, body) == [status_code |-> status_code, body |-> body]

\* a _deliver_webhook call for delivery row d is in bag `b`
InFlight(b, d) ==
    \E t \in BagToSet(b) : t.delivery_id = Some(d) \/ t.id = Some(d)

\* history variable: a delivery is recorded once its attempt_count is at or above
\* its endpoint's retry_count with no executor call for it outstanding
\* history variable: the last non-null next_retry_at a sweep wrote to each row
TrackHistory ==
    /\ reached_cap' = reached_cap \cup
          {d \in DOMAIN deliveries' :
              /\ deliveries'[d].attempt_count
                    >= endpoints'[deliveries'[d].endpoint_id].retry_count
              /\ ~InFlight(tasks', d)}
    /\ placeholder' = [d \in DOMAIN deliveries' |->
          IF deliveries'[d].next_retry_at # None
          THEN deliveries'[d].next_retry_at
          ELSE IF d \in DOMAIN placeholder THEN placeholder[d] ELSE None]

\* (no operation of the webhooks module or the clock writes the tables of the other
\* modules; an operation that runs to its return leaves the suspended calls alone)
Track ==
    /\ TrackHistory
    /\ UNCHANGED <<notifications, notification_seq, frames, flag_vars, config_vars>>

\* nothing is suspended and the tables of the other modules are empty
Elsewhere ==
    /\ frames = EmptyDict
    /\ feature_flags = EmptyDict
    /\ flag_cache = EmptyDict
    /\ config_items = EmptyDict
    /\ config_history = {}

Init ==
    /\ endpoints = EmptyDict
    /\ subscriptions = EmptyDict
    /\ deliveries = EmptyDict
    /\ endpoint_seq = 0
    /\ subscription_seq = 0
    /\ delivery_seq = 0
    /\ tasks = EmptyBag
    /\ now = 0
    /\ ret = Ret("init", None, <<>>, 0)
    /\ posts = EmptyDict
    /\ reached_cap = {}
    /\ notifications = EmptyDict
    /\ notification_seq = 0
    /\ placeholder = [d \in DOMAIN deliveries |-> None]
    /\ Elsewhere

----------------------------------------------------------------------------
(* WebhooksService.create_endpoint *)
create_endpoint(retry_count, secret, headers) ==
    /\ endpoint_seq < MaxEndpoints
    /\ endpoint_seq' = endpoint_seq + 1
    /\ endpoints' = [e \in DOMAIN endpoints \cup {endpoint_seq + 1} |->
                        IF e \in DOMAIN endpoints THEN endpoints[e]
                        ELSE NewEndpoint(retry_count, secret, headers)]
    /\ ret' = Ret("create_endpoint", Some(endpoint_seq + 1), <<>>, 0)
    /\ UNCHANGED <<subscriptions, deliveries, subscription_seq, delivery_seq, tasks, now, posts>>
    /\ Track

(* WebhooksService.update_endpoint: a partial update of one field.  *)
update_endpoint(endpoint_id, key, value) ==
    /\ IF endpoint_id \in DOMAIN endpoints
       THEN /\ endpoints' = [endpoints EXCEPT ![endpoint_id] =
                    [f \in DOMAIN @ |-> IF f = key THEN value ELSE @[f]]]
            /\ ret' = Ret("update_endpoint", Some(endpoint_id), <<>>, 0)
       ELSE /\ UNCHANGED endpoints
            /\ ret' = Ret("update_endpoint", None, <<>>, 0)
    /\ UNCHANGED <<subscriptions, deliveries, endpoint_seq, subscription_seq,
                   delivery_seq, tasks, now, posts>>
    /\ Track

\* WebhookEndpointResponse of endpoint row e (response_model of the endpoint routes):
\* the fields of WebhookEndpointBase, secret among them, with id and status
WebhookEndpointResponse(e) ==
    [id          |-> e,
     status      |-> endpoints[e].status,
     retry_count |-> endpoints[e].retry_count,
     secret      |-> endpoints[e].secret,
     headers     |-> endpoints[e].headers]

\* GET /endpoints (get_webhook_endpoints over WebhooksService.get_endpoints): the
\* rows of the status filter in the order `order` the query returned them (created_at
\* descending, ties in any order), from `skip`, at most `limit`, serialized with
\* response_model = List[WebhookEndpointResponse]
get_webhook_endpoints(status, skip, limit, order) ==
    LET rows == {e \in DOMAIN endpoints :
                    status = None \/ endpoints[e].status = status[1]}
        last == IF skip + limit < Len(order) THEN skip + limit ELSE Len(order)
        page == SubSeq(order, skip + 1, last)
    IN
    /\ order \in Orders(rows)
    /\ ret' = [Ret("get_webhook_endpoints", None, page, Len(page))
                 EXCEPT !.http = Some(HttpResponse(200,
                            [i \in 1..Len(page) |-> WebhookEndpointResponse(page[i])]))]
    /\ UNCHANGED <<endpoints, subscriptions, deliveries, endpoint_seq, subscription_seq,
                   delivery_seq, tasks, now, posts>>
    /\ Track

\* the subscription and delivery rows that reference endpoint_id
ChildSubscriptions(endpoint_id) ==
    {s \in DOMAIN subscriptions : subscriptions[s].endpoint_id = endpoint_id}
ChildDeliveries(endpoint_id) ==
    {d \in DOMAIN deliveries : deliveries[d].endpoint_id = endpoint_id}

(* WebhooksService.delete_endpoint.  The relationships of WebhookEndpoint carry   *)
(* neither a delete cascade nor passive_deletes, so the flush of db.delete loads   *)
(* the child rows and sets their endpoint_id to NULL; the column is NOT NULL, so   *)
(* with any child row the commit raises IntegrityError and nothing is deleted.     *)
delete_endpoint(endpoint_id) ==
    /\ IF endpoint_id \notin DOMAIN endpoints
       THEN \* not found: return False
            /\ UNCHANGED endpoints
            /\ ret' = Ret("delete_endpoint", None, <<>>, 0)
       ELSE IF ChildSubscriptions(endpoint_id) # {} \/ ChildDeliveries(endpoint_id) # {}
       THEN \* IntegrityError out of db.commit
            /\ UNCHANGED endpoints
            /\ ret' = [Ret("delete_endpoint", None, <<>>, 0) EXCEPT !.raised = TRUE]
       ELSE \* deleted: return True
            /\ endpoints' = [e \in DOMAIN endpoints \ {endpoint_id} |-> endpoints[e]]
            /\ ret' = Ret("delete_endpoint", Some(endpoint_id), <<>>, 0)
    /\ UNCHANGED <<subscriptions, deliveries, endpoint_seq, subscription_seq,
                   delivery_seq, tasks, now, posts>>
    /\ Track

\* (mutant) the lookup by endpoint alone
ExistingSubscription_ByEndpoint(endpoint_id, event_type) ==
    {s \in DOMAIN subscriptions : subscriptions[s].endpoint_id = endpoint_id}

\* the rows of "check if subscription already exists"
ExistingSubscription(endpoint_id, event_type) ==
    {s \in DOMAIN subscriptions :
        /\ subscriptions[s].endpoint_id = endpoint_id
        /\ subscriptions[s].event_type = event_type}

(* WebhooksService.create_subscription *)
create_subscription(endpoint_id, event_type, filter_conditions) ==
    LET existing == ExistingSubscription(endpoint_id, event_type)
    IN
    /\ IF endpoint_id \notin DOMAIN endpoints
       THEN \* endpoint not found: return None
            /\ UNCHANGED <<subscriptions, subscription_seq>>
            /\ ret' = Ret("create_subscription", None, <<>>, 0)
       ELSE IF Cardinality(existing) > 1
       THEN \* scalar_one_or_none raises MultipleResultsFound
            /\ UNCHANGED <<subscriptions, subscription_seq>>
            /\ ret' = [Ret("create_subscription", None, <<>>, 0) EXCEPT !.raised = TRUE]
       ELSE IF existing # {}
       THEN \* update the filter conditions of the existing row
            LET s == CHOOSE x \in existing : TRUE IN
            /\ subscriptions' = [subscriptions EXCEPT
                                    ![s].filter_conditions = filter_conditions]
            /\ UNCHANGED subscription_seq
            /\ ret' = Ret("create_subscription", Some(s), <<>>, 0)
       ELSE \* insert a new row
            /\ subscription_seq < MaxSubscriptions
            /\ subscription_seq' = subscription_seq + 1
            /\ subscriptions' =
                  [s \in DOMAIN subscriptions \cup {subscription_seq + 1} |->
                      IF s \in DOMAIN subscriptions THEN subscriptions[s]
                      ELSE [endpoint_id       |-> endpoint_id,
                            event_type        |-> event_type,
                            filter_conditions |-> filter_conditions]]
            /\ ret' = Ret("create_subscription", Some(subscription_seq + 1), <<>>, 0)
    /\ UNCHANGED <<endpoints, deliveries, endpoint_seq, delivery_seq, tasks, now, posts>>
    /\ Track

----------------------------------------------------------------------------
(* Subscription matcher *)

\* WebhooksService.get_endpoints_for_event: the (endpoint, subscription) join,
\* named by the subscription id
get_endpoints_for_event(event_type) ==
    {s \in DOMAIN subscriptions :
        /\ subscriptions[s].endpoint_id \in DOMAIN endpoints
        /\ subscriptions[s].event_type = event_type
        /\ endpoints[subscriptions[s].endpoint_id].status = ACTIVE}

\* (mutant) one matching key is enough
FilterMatches_AnyKey(filter_conditions, payload) ==
    IF TruthyDict(filter_conditions)
    THEN \E key \in DOMAIN filter_conditions[1] :
            key \in DOMAIN payload /\ payload[key] = filter_conditions[1][key]
    ELSE TRUE

\* the filter of trigger_webhook: every key of the conditions is in the payload
\* with an equal value; falsy conditions (None, {}) match
FilterMatches(filter_conditions, payload) ==
    IF TruthyDict(filter_conditions)
    THEN \A key \in DOMAIN filter_conditions[1] :
            key \in DOMAIN payload /\ payload[key] = filter_conditions[1][key]
    ELSE TRUE

----------------------------------------------------------------------------
(* Signer and request headers *)

\* json.dumps(payload)
JsonDumps(payload) == ToString(payload)

\* hmac.new(secret, msg, sha256).hexdigest(): a digest that names its key and message
HmacSha256Hex(key, msg) == "hmac-sha256(" \o key \o "," \o msg \o ")"

\* WebhooksService._generate_signature
generate_signature(payload, secret) ==
    IF ~TruthyStr(secret) THEN ""
    ELSE HmacSha256Hex(secret[1], JsonDumps(payload))

\* (mutant) the custom headers applied after the signature
RequestHeaders_CustomLast(id, event_type, payload, headers, secret) ==
    LET base == [k \in {"Content-Type", "User-Agent", "X-Webhook-ID", "X-Webhook-Event"} |->
                    CASE k = "Content-Type" -> "application/json"
                      [] k = "User-Agent" -> "Dotmac-Platform-Core-Webhook"
                      [] k = "X-Webhook-ID" -> ToString(id)
                      [] OTHER -> event_type]
        signed == IF TruthyStr(secret)
                  THEN DictUpdate(base,
                          [k \in {"X-Webhook-Signature"} |->
                              generate_signature(payload, secret)])
                  ELSE base
    IN  IF TruthyDict(headers) THEN DictUpdate(signed, headers[1]) ELSE signed

\* the request headers _deliver_webhook builds for delivery row `id`
RequestHeaders(id, event_type, payload, headers, secret) ==
    LET base == [k \in {"Content-Type", "User-Agent", "X-Webhook-ID", "X-Webhook-Event"} |->
                    CASE k = "Content-Type" -> "application/json"
                      [] k = "User-Agent" -> "Dotmac-Platform-Core-Webhook"
                      [] k = "X-Webhook-ID" -> ToString(id)
                      [] OTHER -> event_type]
        custom == IF TruthyDict(headers) THEN DictUpdate(base, headers[1]) ELSE base
    IN  IF TruthyStr(secret)
        THEN DictUpdate(custom,
                [k \in {"X-Webhook-Signature"} |-> generate_signature(payload, secret)])
        ELSE custom

----------------------------------------------------------------------------
(* Delivery executor: WebhooksService._deliver_webhook *)

\* the arguments of one _deliver_webhook call
Task(state, delivery_id, endpoint_id, event_type, payload, headers, secret) ==
    [state       |-> state,
     delivery_id |-> delivery_id,     \* the delivery_id argument
     id          |-> None,            \* db_delivery.id, once the row is loaded
     endpoint_id |-> endpoint_id,
     event_type  |-> event_type,
     payload     |-> payload,
     headers     |-> headers,
     secret      |-> secret,
     request_headers |-> None]        \* the headers of the outstanding POST

\* the POSTs issued so far for delivery row d
Posts(d) == IF d \in DOMAIN posts THEN posts[d] ELSE 0

\* "if delivery_id:" and the row is found
Reuses(t) ==
    t.delivery_id # None /\ t.delivery_id[1] # 0 /\ t.delivery_id[1] \in DOMAIN deliveries

\* the attempt_count a reused row gets
NextAttemptCount(attempt_count) == attempt_count + 1

\* (mutant) the headers are written to the row only with the response
StoredHeaders_WithResponse(request_headers) == None

\* "db_delivery.request_headers = request_headers", committed before the POST
StoredHeaders(request_headers) == Some(request_headers)

\* From the top of _deliver_webhook to the await of client.post: get or create the
\* row, commit, build and store the request headers, commit.  `rest` is the bag of
\* the other tasks.
DeliverBegin(t, rest) ==
    LET id == IF Reuses(t) THEN t.delivery_id[1] ELSE delivery_seq + 1
        row == IF Reuses(t)
               THEN [deliveries[id] EXCEPT
                        !.attempt_count = NextAttemptCount(@),
                        !.next_retry_at = None]
               ELSE NewDelivery(t.endpoint_id, t.event_type, t.payload)
        request_headers ==
            RequestHeaders(id, t.event_type, t.payload, t.headers, t.secret)
    IN
    /\ Reuses(t) \/ delivery_seq < MaxDeliveries
    /\ delivery_seq' = IF Reuses(t) THEN delivery_seq ELSE delivery_seq + 1
    /\ deliveries' = [d \in DOMAIN deliveries \cup {id} |->
                        IF d = id
                        THEN [row EXCEPT !.request_headers = StoredHeaders(request_headers)]
                        ELSE deliveries[d]]
    /\ tasks' = rest (+) SetToBag({[t EXCEPT !.state = "posting",
                                             !.id = Some(id),
                                             !.request_headers = Some(request_headers)]})
    /\ posts' = [d \in DOMAIN posts \cup {id} |->
                    IF d = id THEN Posts(id) + 1 ELSE posts[d]]

\* a background task starts to run
deliver_webhook_begin(t) ==
    /\ BagIn(t, tasks)
    /\ t.state = "scheduled"
    /\ DeliverBegin(t, tasks (-) SetToBag({t}))
    /\ UNCHANGED <<endpoints, subscriptions, endpoint_seq, subscription_seq, now, ret>>
    /\ Track

\* (mutant) 300 counted as a success
IsSuccess_Through300(status_code) == 200 <= status_code /\ status_code <= 300

\* "200 <= response.status_code < 300"
IsSuccess(status_code) == 200 <= status_code /\ status_code < 300

\* (mutant) an exception leaves the response fields as they were
Outcome_ErrorUnrecorded(row, o) ==
    IF o.exception
    THEN [row EXCEPT !.success = FALSE, !.completed_at = Some(now)]
    ELSE [row EXCEPT !.response_status = Some(o.status_code),
                     !.response_body = Some(o.text),
                     !.success = IsSuccess(o.status_code),
                     !.completed_at = Some(now)]

\* the fields written after the POST: from the response, or from the exception
Outcome(row, o) ==
    IF o.exception
    THEN [row EXCEPT !.response_status = Some(0),
                     !.response_body = Some(o.text),
                     !.success = FALSE,
                     !.completed_at = Some(now)]
    ELSE [row EXCEPT !.response_status = Some(o.status_code),
                     !.response_body = Some(o.text),
                     !.success = IsSuccess(o.status_code),
                     !.completed_at = Some(now)]

\* the POST returns or raises: record the result, commit, return the row
deliver_webhook_end(t, o) ==
    /\ BagIn(t, tasks)
    /\ t.state = "posting"
    /\ t.id[1] \in DOMAIN deliveries
    /\ deliveries' = [deliveries EXCEPT ![t.id[1]] = Outcome(@, o)]
    /\ tasks' = tasks (-) SetToBag({t})
    /\ ret' = Ret("_deliver_webhook", t.id, <<>>, 0)
    /\ UNCHANGED <<endpoints, subscriptions, endpoint_seq, subscription_seq,
                   delivery_seq, now, posts>>
    /\ Track

----------------------------------------------------------------------------
(* Event trigger: WebhooksService.trigger_webhook *)

\* the subscriptions of the join that pass the filter
Matches(event_type, payload) ==
    {s \in get_endpoints_for_event(event_type) :
        FilterMatches(subscriptions[s].filter_conditions, payload)}

\* the response of the route POST /trigger/{event_type} for the list the service
\* returned; the decorator names no status_code
TriggerResponse(event_type, delivery_ids) ==
    HttpResponse(200, [event_type     |-> event_type,
                       delivery_count |-> Len(delivery_ids),
                       delivery_ids   |-> delivery_ids])

\* `order` is the order in which the join returned the matching rows; row i of it
\* gets delivery id delivery_seq + i and one background task
trigger_webhook(event_type, payload, order) ==
    LET n == Len(order)
        new == (delivery_seq + 1)..(delivery_seq + n)
        ep(d) == subscriptions[order[d - delivery_seq]].endpoint_id
    IN
    /\ order \in Orders(Matches(event_type, payload))
    /\ delivery_seq + n <= MaxDeliveries
    /\ BagCardinality(tasks) + n <= MaxTasks
    /\ delivery_seq' = delivery_seq + n
    /\ deliveries' = [d \in DOMAIN deliveries \cup new |->
                        IF d \in new THEN NewDelivery(ep(d), event_type, payload)
                        ELSE deliveries[d]]
    /\ tasks' = tasks (+) SetToBag(
                    {Task("scheduled", Some(d), ep(d), event_type, payload,
                          endpoints[ep(d)].headers, endpoints[ep(d)].secret) : d \in new})
    /\ ret' = [Ret("trigger_webhook", None, [i \in 1..n |-> delivery_seq + i], n)
                 EXCEPT !.http = Some(TriggerResponse(
                                    event_type, [i \in 1..n |-> delivery_seq + i]))]
    /\ UNCHANGED <<endpoints, subscriptions, endpoint_seq, subscription_seq, now, posts>>
    /\ Track

----------------------------------------------------------------------------
(* Retry scheduler: WebhooksService.retry_failed_deliveries *)

Min(a, b) == IF a <= b THEN a ELSE b

\* (mutant) the limit compared with <=
UnderRetryLimit_Inclusive(attempt_count, retry_count) == attempt_count <= retry_count

\* "attempt_count < retry_count"
UnderRetryLimit(attempt_count, retry_count) == attempt_count < retry_count

\* (mutant) a row is due only strictly after its next_retry_at
Due_Strict(next_retry_at, t) == next_retry_at = None \/ next_retry_at[1] < t

\* "next_retry_at IS NULL OR next_retry_at <= now"
Due(next_retry_at, t) == next_retry_at = None \/ next_retry_at[1] <= t

\* (mutant) the WHERE clause without "success == False"
Selected_IgnoresSuccess(d) ==
    /\ deliveries[d].endpoint_id \in DOMAIN endpoints
    /\ UnderRetryLimit(deliveries[d].attempt_count,
                       endpoints[deliveries[d].endpoint_id].retry_count)
    /\ Due(deliveries[d].next_retry_at, now)
    /\ endpoints[deliveries[d].endpoint_id].status = ACTIVE

\* the WHERE clause of the retry query, over the delivery-endpoint join
Selected(d) ==
    /\ deliveries[d].endpoint_id \in DOMAIN endpoints
    /\ deliveries[d].success = FALSE
    /\ UnderRetryLimit(deliveries[d].attempt_count,
                       endpoints[deliveries[d].endpoint_id].retry_count)
    /\ Due(deliveries[d].next_retry_at, now)
    /\ endpoints[deliveries[d].endpoint_id].status = ACTIVE

\* (mutant) rows whose POST raised are left out
failed_deliveries_OnlyAnswered ==
    {d \in DOMAIN deliveries : Selected(d) /\ deliveries[d].response_status # Some(0)}

failed_deliveries == {d \in DOMAIN deliveries : Selected(d)}

\* (mutant) the exponent without its cap
RetryDelay_Uncapped(attempt_count) == 60 * (2 ^ attempt_count)

\* "retry_delay = 60 * (2**min(attempt_count, 5))"
RetryDelay(attempt_count) == 60 * (2 ^ Min(attempt_count, 5))

\* a set of ids as an ascending list
RECURSIVE Ascending(_)
Ascending(S) ==
    IF S = {} THEN <<>>
    ELSE LET m == CHOOSE x \in S : \A y \in S : x <= y
         IN  <<m>> \o Ascending(S \ {m})

\* One sweep (test_mode = False): every selected row gets its placeholder
\* next_retry_at and one detached _deliver_webhook task.
retry_failed_deliveries ==
    LET sel == failed_deliveries IN
    /\ BagCardinality(tasks) + Cardinality(sel) <= MaxTasks
    /\ deliveries' = [d \in DOMAIN deliveries |->
                        IF d \in sel
                        THEN [deliveries[d] EXCEPT !.next_retry_at =
                                Some(now + RetryDelay(deliveries[d].attempt_count))]
                        ELSE deliveries[d]]
    /\ tasks' = tasks (+) SetToBag(
                    {Task("scheduled", Some(d), deliveries[d].endpoint_id,
                          deliveries[d].event_type, deliveries[d].payload,
                          endpoints[deliveries[d].endpoint_id].headers,
                          endpoints[deliveries[d].endpoint_id].secret) : d \in sel})
    /\ ret' = Ret("retry_failed_deliveries", None, Ascending(sel),
                  Cardinality(sel))
    /\ UNCHANGED <<endpoints, subscriptions, endpoint_seq, subscription_seq,
                   delivery_seq, now, posts>>
    /\ Track

----------------------------------------------------------------------------
(* WebhooksService.test_webhook, up to the await of the POST *)
test_webhook(endpoint_id, event_type, payload) ==
    IF endpoint_id \notin DOMAIN endpoints
    THEN /\ ret' = Ret("test_webhook", None, <<>>, 0)
         /\ UNCHANGED <<endpoints, subscriptions, deliveries, endpoint_seq,
                        subscription_seq, delivery_seq, tasks, now, posts>>
         /\ Track
    ELSE /\ BagCardinality(tasks) < MaxTasks
         /\ DeliverBegin(
               Task("scheduled", None, endpoint_id, event_type,
                    DictUpdate(payload, [k \in {"_test"} |-> TRUE]),
                    endpoints[endpoint_id].headers, endpoints[endpoint_id].secret),
               tasks)
         /\ UNCHANGED <<endpoints, subscriptions, endpoint_seq, subscription_seq, now, ret>>
         /\ Track

(* the clock *)
Tick ==
    /\ now + TickSeconds <= MaxNow
    /\ now' = now + TickSeconds
    /\ UNCHANGED <<endpoints, subscriptions, deliveries, endpoint_seq, subscription_seq,
                   delivery_seq, tasks, ret, posts>>
    /\ Track

(* the process dies and is started again: the detached tasks of asyncio.create_task *)
(* and the calls suspended at an await are gone, what was committed stays         *)
crash ==
    /\ tasks # EmptyBag \/ frames # EmptyDict
    /\ tasks' = EmptyBag
    /\ frames' = EmptyDict
    /\ ret' = Ret("crash", None, <<>>, 0)
    /\ UNCHANGED <<endpoints, subscriptions, deliveries, endpoint_seq, subscription_seq,
                   delivery_seq, now, posts>>
    /\ TrackHistory
    /\ UNCHANGED <<notifications, notification_seq, flag_vars, config_vars>>

----------------------------------------------------------------------------
(* Notifications module: NotificationsService *)

PENDING == "pending"
DELIVERED == "delivered"
READ == "read"
NotificationStatus == {PENDING, DELIVERED, READ, FAILED}

\* Column defaults of Notification
NewNotification(recipient_id, expires_at) ==
    [recipient_id |-> recipient_id,
     status       |-> PENDING,
     delivered_at |-> None,
     read_at      |-> None,
     expires_at   |-> expires_at]

\* (mutant) the unread rows that are not expired
UnreadNotifications_NotExpired(recipient_id) ==
    {n \in DOMAIN notifications :
        /\ notifications[n].recipient_id = recipient_id
        /\ notifications[n].status \in {PENDING, DELIVERED}
        /\ \/ notifications[n].expires_at = None
           \/ notifications[n].expires_at[1] > now}

\* the query of mark_all_as_read
UnreadNotifications(recipient_id) ==
    {n \in DOMAIN notifications :
        /\ notifications[n].recipient_id = recipient_id
        /\ notifications[n].status \in {PENDING, DELIVERED}}

(* NotificationsService.mark_all_as_read *)
mark_all_as_read(recipient_id) ==
    LET unread_notifications == UnreadNotifications(recipient_id) IN
    /\ notifications' = [n \in DOMAIN notifications |->
                            IF n \in unread_notifications
                            THEN [notifications[n] EXCEPT !.status = READ,
                                                          !.read_at = Some(now)]
                            ELSE notifications[n]]
    /\ ret' = Ret("mark_all_as_read", None, <<>>, Cardinality(unread_notifications))
    /\ UNCHANGED <<webhook_vars, flag_vars, config_vars, now, notification_seq>>

\* (mutant) a row is still live at its expires_at
NotExpired_Through(expires_at, t) == expires_at = None \/ expires_at[1] >= t

\* "expires_at IS NULL OR expires_at > now"
NotExpired(expires_at, t) == expires_at = None \/ expires_at[1] > t

\* the count query of get_unread_count
UnreadCount(recipient_id) ==
    Cardinality({n \in DOMAIN notifications :
                    /\ notifications[n].recipient_id = recipient_id
                    /\ notifications[n].status \in {PENDING, DELIVERED}
                    /\ NotExpired(notifications[n].expires_at, now)})

(* NotificationsService.get_unread_count *)
get_unread_count(recipient_id) ==
    /\ ret' = Ret("get_unread_count", None, <<>>, UnreadCount(recipient_id))
    /\ UNCHANGED <<webhook_vars, flag_vars, config_vars, now, notifications, notification_seq>>

\* (mutant) rows strictly past their expires_at
ExpiredNotifications_Strict ==
    {n \in DOMAIN notifications :
        notifications[n].expires_at # None /\ notifications[n].expires_at[1] < now}

\* the query of clean_expired_notifications
ExpiredNotifications ==
    {n \in DOMAIN notifications :
        notifications[n].expires_at # None /\ notifications[n].expires_at[1] <= now}

(* NotificationsService.clean_expired_notifications *)
clean_expired_notifications ==
    LET expired_notifications == ExpiredNotifications IN
    /\ notifications' = [n \in DOMAIN notifications \ expired_notifications |->
                            notifications[n]]
    /\ ret' = Ret("clean_expired_notifications", None, <<>>,
                  Cardinality(expired_notifications))
    /\ UNCHANGED <<webhook_vars, flag_vars, config_vars, now, notification_seq>>

\* (mutant) a row is still listed at its expires_at
Listed_Through(expires_at, t) == expires_at = None \/ expires_at[1] >= t

\* the filter of get_notifications when include_expired is false:
\* "expires_at IS NULL OR expires_at > now"
Listed(expires_at, t) == expires_at = None \/ expires_at[1] > t

\* the rows of the query of get_notifications
ListedNotifications(recipient_id, status, include_expired) ==
    {n \in DOMAIN notifications :
        /\ TruthyStr(recipient_id) => notifications[n].recipient_id = recipient_id[1]
        /\ status # None => notifications[n].status = status[1]
        /\ ~include_expired => Listed(notifications[n].expires_at, now)}

\* a set of ids as a descending list: rows are created in the order of their ids,
\* and the query orders by created_at, newest first
RECURSIVE Descending(_)
Descending(S) ==
    IF S = {} THEN <<>>
    ELSE LET m == CHOOSE x \in S : \A y \in S : x >= y
         IN  <<m>> \o Descending(S \ {m})

(* NotificationsService.get_notifications, without notification_type and        *)
(* priority filters and with the default skip = 0, limit = 100                   *)
get_notifications(recipient_id, status, include_expired) ==
    LET rows == ListedNotifications(recipient_id, status, include_expired) IN
    /\ ret' = Ret("get_notifications", None, Descending(rows), Cardinality(rows))
    /\ UNCHANGED <<webhook_vars, flag_vars, config_vars, now, notifications,
                   notification_seq>>

----------------------------------------------------------------------------
(* Inputs *)

\* a response of the third party, or an exception of client.post
Response(status_code, text) ==
    [exception |-> FALSE, status_code |-> status_code, text |-> text]
Raised(message) ==
    [exception |-> TRUE, status_code |-> 0, text |-> message]

\* the management calls, with arguments from the given sets; `Ids` are the endpoint
\* ids in use
Admin(Ids, RetryCounts, Secrets, Headers, Statuses, EventTypes, Filters) ==
    \/ \E rc \in RetryCounts, s \in Secrets, h \in Headers :
          endpoint_seq + 1 \in Ids /\ create_endpoint(rc, s, h)
    \/ \E e \in Ids :
          \/ \E v \in Statuses : update_endpoint(e, "status", v)
          \/ \E v \in RetryCounts : update_endpoint(e, "retry_count", v)
          \/ \E v \in Secrets : update_endpoint(e, "secret", v)
          \/ \E v \in Headers : update_endpoint(e, "headers", v)
    \/ \E e \in Ids, t \in EventTypes, f \in Filters : create_subscription(e, t, f)

\* the calls that create deliveries
Events(Ids, EventTypes, Payloads) ==
    \/ \E t \in EventTypes, p \in Payloads :
          \E order \in Orders(Matches(t, p)) : trigger_webhook(t, p, order)
    \/ \E e \in Ids, t \in EventTypes, p \in Payloads : test_webhook(e, t, p)

\* the executor, the retry sweep and the clock
Workers(Outcomes) ==
    \/ \E t \in BagToSet(tasks) : deliver_webhook_begin(t)
    \/ \E t \in BagToSet(tasks), o \in Outcomes : deliver_webhook_end(t, o)
    \/ retry_failed_deliveries
    \/ Tick

----------------------------------------------------------------------------
(* The retry state machine: every operation, on one endpoint whose retry limit  *)
(* and status vary, with deliveries that succeed, fail and raise.               *)

Next ==
    \/ Admin({1}, {0, 2}, {None}, {None}, {ACTIVE, INACTIVE}, {"config.created"}, {None})
    \/ Events({1}, {"config.created"}, {EmptyDict})
    \/ Workers({Response(200, "OK"), Response(500, "error"), Raised("timed out")})

Spec == Init /\ [][Next]_vars

----------------------------------------------------------------------------
(* Properties of the retry state machine, checked under Spec *)

\* the number of _deliver_webhook calls in bag `b` made for delivery row d
CallsFor(b, d) ==
    LET S == {t \in BagToSet(b) : t.delivery_id = Some(d)}
    IN  IF S = {} THEN 0 ELSE BagCardinality([t \in S |-> b[t]])

\* the step hands delivery row d to the executor once more
Dispatches(d) == CallsFor(tasks', d) = CallsFor(tasks, d) + 1

\* C2: one run of retry_failed_deliveries at time `now` dispatches delivery d if and
\* only if, when the run selects, d.success is false, d.attempt_count is below the
\* retry_count of d's endpoint, d.next_retry_at is null or <= now, and d's endpoint
\* is active; every other delivery is left undispatched by the run.
C2_RetrySelection ==
    [][retry_failed_deliveries =>
        \A d \in DOMAIN deliveries :
            LET row == deliveries[d]
                endpoint == endpoints[row.endpoint_id]
                due == /\ ~row.success
                       /\ row.attempt_count < endpoint.retry_count
                       /\ (row.next_retry_at = None \/ row.next_retry_at[1] <= now)
                       /\ endpoint.status = "active"
            IN  /\ due => Dispatches(d)
                /\ ~due => CallsFor(tasks', d) = CallsFor(tasks, d)]_vars

\* C2 witness: a sweep has run that dispatched one failed delivery and left another
\* delivery alone
C2_Witness ==
    /\ ret.op = "retry_failed_deliveries"
    /\ ret.count = 1
    /\ \E d \in DOMAIN deliveries :
          /\ d # ret.ids[1]
          /\ deliveries[d].completed_at # None
          /\ deliveries[d].success
          /\ CallsFor(tasks, d) = 0
    /\ \E d \in DOMAIN deliveries :
          /\ d = ret.ids[1]
          /\ deliveries[d].completed_at # None
          /\ CallsFor(tasks, d) = 1

\* the endpoint row of delivery row d, in the current or the next state
EndpointOf(d) == endpoints[deliveries[d].endpoint_id]
EndpointOfNext(d) == endpoints'[deliveries'[d].endpoint_id]

C4_AttemptCountBound ==
    \A d \in DOMAIN deliveries :
        deliveries[d].attempt_count <= EndpointOf(d).retry_count + 1

\* C5, as claimed: attempt_count counts the HTTP attempts of a delivery: once k >= 1
\* POSTs have been issued for it, attempt_count = k.
C5_AttemptCountCountsAttempts ==
    \A d \in DOMAIN deliveries :
        Posts(d) >= 1 => deliveries[d].attempt_count = Posts(d)

----------------------------------------------------------------------------
(* The subscription matcher as a function of the tables: trigger_webhook applied *)
(* to every configuration of two endpoints and up to MaxSubscriptions            *)
(* subscriptions (one per endpoint and event type, as create_subscription keeps  *)
(* them) that the management calls can build.                                    *)

MatchEventTypes == {"config.created", "config.updated"}
MatchFilters ==
    {None, Some(EmptyDict), Some([key |-> "x"]), Some([key |-> "x", env |-> "prod"])}
MatchPayloads ==
    {[key |-> "x"], [key |-> "x", env |-> "prod"], [key |-> "x", env |-> "dev"]}

InitMatch ==
    /\ endpoints \in [1..MaxEndpoints ->
                        {[NewEndpoint(3, None, None) EXCEPT !.status = st] :
                            st \in WebhookStatus}]
    /\ endpoint_seq = MaxEndpoints
    /\ \E n \in 0..MaxSubscriptions :
          /\ subscription_seq = n
          /\ subscriptions \in [1..n -> [endpoint_id : 1..MaxEndpoints,
                                          event_type : MatchEventTypes,
                                          filter_conditions : MatchFilters]]
          /\ \A a, b \in 1..n :
                (/\ subscriptions[a].endpoint_id = subscriptions[b].endpoint_id
                 /\ subscriptions[a].event_type = subscriptions[b].event_type) => a = b
    /\ deliveries = EmptyDict
    /\ delivery_seq = 0
    /\ tasks = EmptyBag
    /\ now = 0
    /\ ret = Ret("init", None, <<>>, 0)
    /\ posts = EmptyDict
    /\ reached_cap = {}
    /\ notifications = EmptyDict
    /\ notification_seq = 0
    /\ placeholder = [d \in DOMAIN deliveries |-> None]
    /\ Elsewhere

NextMatch ==
    \E t \in MatchEventTypes, p \in MatchPayloads :
        \E order \in Orders(Matches(t, p)) : trigger_webhook(t, p, order)

SpecMatch == InitMatch /\ [][NextMatch]_vars

\* C1: trigger_webhook(T, P) creates exactly one delivery record per (endpoint,
\* subscription) pair with the endpoint active, the subscription's event_type = T and
\* every key of its filter_conditions in P with an equal value (null or empty
\* conditions always match), and no delivery record for any other endpoint.
C1_TriggerFansOutToMatches ==
    [][\A T \in MatchEventTypes, P \in MatchPayloads :
        (\E order \in Orders(Matches(T, P)) : trigger_webhook(T, P, order)) =>
            LET created == DOMAIN deliveries' \ DOMAIN deliveries
                matching(e) ==
                    {s \in DOMAIN subscriptions :
                        LET fc == subscriptions[s].filter_conditions IN
                        /\ subscriptions[s].endpoint_id = e
                        /\ endpoints[e].status = "active"
                        /\ subscriptions[s].event_type = T
                        /\ \/ fc = None
                           \/ \A k \in DOMAIN fc[1] : k \in DOMAIN P /\ P[k] = fc[1][k]}
            IN  /\ \A e \in DOMAIN endpoints :
                      Cardinality({d \in created : deliveries'[d].endpoint_id = e})
                          = Cardinality(matching(e))
                /\ \A d \in created :
                      /\ deliveries'[d].endpoint_id \in DOMAIN endpoints
                      /\ deliveries'[d].event_type = T
                      /\ deliveries'[d].payload = P
                /\ \A d \in DOMAIN deliveries : deliveries'[d] = deliveries[d]]_vars

\* C1 witness: a trigger created exactly one delivery, for a subscription with a real
\* filter, while another active endpoint subscribed to the same event was passed over
\* because its filter did not match, and so was an endpoint that is not active
C1_Witness ==
    /\ ret.op = "trigger_webhook"
    /\ ret.count = 1
    /\ DOMAIN deliveries = {ret.ids[1]}
    /\ LET d == deliveries[ret.ids[1]] IN
       /\ \E s \in DOMAIN subscriptions :
             /\ subscriptions[s].endpoint_id = d.endpoint_id
             /\ subscriptions[s].event_type = d.event_type
             /\ TruthyDict(subscriptions[s].filter_conditions)
       /\ \E s \in DOMAIN subscriptions :
             /\ subscriptions[s].endpoint_id # d.endpoint_id
             /\ subscriptions[s].event_type = d.event_type
             /\ endpoints[subscriptions[s].endpoint_id].status = ACTIVE
             /\ subscriptions[s].filter_conditions =
                    Some([key |-> "x", env |-> "prod"])
             /\ d.payload = [key |-> "x", env |-> "dev"]

----------------------------------------------------------------------------
(* The delivery executor on one subscribed endpoint: deliveries are triggered,   *)
(* tested, posted, answered and retried.                                          *)

\* the state after create_endpoint and create_subscription for "config.created"
InitDelivery(RetryCounts, Secrets, Headers) ==
    /\ \E rc \in RetryCounts, s \in Secrets, h \in Headers :
          endpoints = [e \in {1} |-> NewEndpoint(rc, s, h)]
    /\ endpoint_seq = 1
    /\ subscriptions = [s \in {1} |-> [endpoint_id       |-> 1,
                                       event_type        |-> "config.created",
                                       filter_conditions |-> None]]
    /\ subscription_seq = 1
    /\ deliveries = EmptyDict
    /\ delivery_seq = 0
    /\ tasks = EmptyBag
    /\ now = 0
    /\ ret = Ret("init", None, <<>>, 0)
    /\ posts = EmptyDict
    /\ reached_cap = {}
    /\ notifications = EmptyDict
    /\ notification_seq = 0
    /\ placeholder = [d \in DOMAIN deliveries |-> None]
    /\ Elsewhere

\* responses on both sides of the 2xx range, and exceptions of client.post
DeliverOutcomes ==
    {Response(199, "early"), Response(200, "OK"), Response(299, "OK"),
     Response(300, "moved"), Raised("timed out"), Raised("")}

InitOutcome == InitDelivery({3}, {None}, {None})

NextOutcome ==
    \/ Events({1}, {"config.created"}, {EmptyDict})
    \/ Workers(DeliverOutcomes)

SpecOutcome == InitOutcome /\ [][NextOutcome]_vars

\* C6: when a delivery attempt completes, the record has completed_at non-null and
\* success = true if and only if an HTTP response with 200 <= status < 300 was
\* received; every other status and every exception yields success = false.
C6_SuccessIffResponse2xx ==
    [][\A t \in BagToSet(tasks), o \in DeliverOutcomes :
        deliver_webhook_end(t, o) =>
            /\ deliveries'[t.id[1]].completed_at # None
            /\ deliveries'[t.id[1]].success =
                  (~o.exception /\ o.status_code \in 200..299)]_vars

\* C6 witness: one delivery completed as a success on status 299, another as a
\* failure on status 300
C6_Witness ==
    \E a, b \in DOMAIN deliveries :
        /\ deliveries[a].response_status = Some(299)
        /\ deliveries[a].success
        /\ deliveries[a].completed_at # None
        /\ deliveries[b].response_status = Some(300)
        /\ ~deliveries[b].success
        /\ deliveries[b].completed_at # None

\* C7: an exception of the outbound POST never propagates out of the executor: it
\* returns the row, which ends with response_status = 0, response_body = the error
\* message, success = false and completed_at set.
C7_PostFailureIsRecorded ==
    [][\A t \in BagToSet(tasks), o \in DeliverOutcomes :
        (o.exception /\ deliver_webhook_end(t, o)) =>
            /\ ret'.op = "_deliver_webhook"
            /\ ~ret'.raised
            /\ ret'.id = t.id
            /\ deliveries'[t.id[1]].response_status = Some(0)
            /\ deliveries'[t.id[1]].response_body = Some(o.text)
            /\ deliveries'[t.id[1]].success = FALSE
            /\ deliveries'[t.id[1]].completed_at = Some(now)]_vars

\* C7 witness: the retry of a delivery that had been answered with a status code
\* timed out, and the executor returned the row
C7_Witness ==
    /\ ret.op = "_deliver_webhook"
    /\ ~ret.raised
    /\ ret.id # None
    /\ Posts(ret.id[1]) = 2
    /\ ~InFlight(tasks, ret.id[1])
    /\ deliveries[ret.id[1]].response_status = Some(0)
    /\ deliveries[ret.id[1]].response_body = Some("timed out")
    /\ deliveries[ret.id[1]].completed_at = Some(MaxNow)

----------------------------------------------------------------------------
(* The request headers, for every secret and every custom headers an endpoint   *)
(* can be created with.                                                          *)

HeaderSecrets == {None, Some(""), Some("s3cr3t")}
HeaderHeaders ==
    {None, Some(EmptyDict), Some([k \in {"X-Custom"} |-> "1"]),
     Some([k \in {"X-Webhook-Signature"} |-> "forged"])}

InitHeaders == InitDelivery({3}, HeaderSecrets, HeaderHeaders)

NextHeaders ==
    \/ Events({1}, {"config.created"}, {[key |-> "x"]})
    \/ Workers({Response(500, "error")})

SpecHeaders == InitHeaders /\ [][NextHeaders]_vars

\* the headers of the outstanding POST of call t are the ones stored on its row
SentIsStored(t) ==
    /\ t.id[1] \in DOMAIN deliveries
    /\ deliveries[t.id[1]].request_headers = t.request_headers

\* C8 (as stated): for every delivery attempt the request headers, sent and stored,
\* contain X-Webhook-Signature if and only if the secret is non-empty, and when
\* present its value is the HMAC-SHA256 hex digest of the serialized payload, for
\* every choice of the custom headers.
C8_SignatureIffSecret ==
    \A t \in BagToSet(tasks) :
        t.state = "posting" =>
            /\ SentIsStored(t)
            /\ ("X-Webhook-Signature" \in DOMAIN t.request_headers[1])
                  <=> (t.secret # None /\ t.secret[1] # "")
            /\ "X-Webhook-Signature" \in DOMAIN t.request_headers[1] =>
                  t.request_headers[1]["X-Webhook-Signature"] =
                      HmacSha256Hex(t.secret[1], ToString(t.payload))

\* C8 (amended): the request headers, sent and stored, contain X-Webhook-Signature
\* if and only if the secret is non-empty or the custom headers supply that key;
\* with a non-empty secret its value is the HMAC-SHA256 hex digest of the serialized
\* payload whatever the custom headers, and with an empty secret it is the custom
\* headers' value.
C8_SignatureIffSecretOrCustomHeader ==
    \A t \in BagToSet(tasks) :
        t.state = "posting" =>
            LET signed == t.secret # None /\ t.secret[1] # ""
                custom == t.headers # None /\ "X-Webhook-Signature" \in DOMAIN t.headers[1]
                sent == t.request_headers[1]
            IN  /\ SentIsStored(t)
                /\ ("X-Webhook-Signature" \in DOMAIN sent) <=> (signed \/ custom)
                /\ signed => sent["X-Webhook-Signature"] =
                                HmacSha256Hex(t.secret[1], ToString(t.payload))
                /\ (~signed /\ custom) =>
                      sent["X-Webhook-Signature"] = t.headers[1]["X-Webhook-Signature"]

\* C8 witness: a POST is outstanding for an endpoint with a secret whose custom
\* headers carry their own X-Webhook-Signature, and the header sent is the digest
C8_Witness ==
    \E t \in BagToSet(tasks) :
        /\ t.state = "posting"
        /\ t.secret = Some("s3cr3t")
        /\ t.headers = Some([k \in {"X-Webhook-Signature"} |-> "forged"])
        /\ t.request_headers[1]["X-Webhook-Signature"] =
              HmacSha256Hex("s3cr3t", ToString(t.payload))
        /\ Posts(t.id[1]) = 2

----------------------------------------------------------------------------
(* The backoff of the retry sweep, on an endpoint whose retry_count lets        *)
(* attempt_count pass the cap of the exponent.                                  *)

BackoffRetryCount == 7

InitBackoff == InitDelivery({BackoffRetryCount}, {None}, {None})

NextBackoff ==
    \/ Events({1}, {"config.created"}, {EmptyDict})
    \/ Workers({Response(500, "error")})

SpecBackoff == InitBackoff /\ [][NextBackoff]_vars

\* C9: the delay a sweep computes for a delivery is 60 * 2^min(attempt_count, 5)
\* seconds: non-decreasing in attempt_count, 1920 s for every attempt_count >= 5,
\* and the sweep sets next_retry_at = now + that delay.
C9_BackoffDelay ==
    [][retry_failed_deliveries =>
        \A d \in DOMAIN deliveries :
            Dispatches(d) =>
                LET n == deliveries[d].attempt_count
                    delay == deliveries'[d].next_retry_at[1] - now
                IN  /\ deliveries'[d].next_retry_at # None
                    /\ delay = 60 * (2 ^ (IF n < 5 THEN n ELSE 5))
                    /\ n >= 5 => delay = 1920
                    /\ \A e \in DOMAIN deliveries :
                          (Dispatches(e) /\ deliveries[e].attempt_count <= n) =>
                              deliveries'[e].next_retry_at[1] - now <= delay]_vars

\* C9 witness: one sweep handled a delivery at attempt_count 2 and one at
\* attempt_count 6, past the cap of the exponent
C9_Witness ==
    /\ ret.op = "retry_failed_deliveries"
    /\ ret.count = 2
    /\ \E a, b \in DOMAIN deliveries :
          /\ deliveries[a].attempt_count = 2
          /\ deliveries[a].next_retry_at = Some(now + 240)
          /\ deliveries[b].attempt_count = 6
          /\ deliveries[b].next_retry_at = Some(now + 1920)
          /\ CallsFor(tasks, a) = 1
          /\ CallsFor(tasks, b) = 1

----------------------------------------------------------------------------
(* The subscription registry: endpoints are created and updated, and            *)
(* subscribed and re-subscribed to two event types with varying filters.         *)

SubFilters == {None, Some([key |-> "x"]), Some([key |-> "y"])}

NextSubs ==
    Admin(1..MaxEndpoints, {3}, {None}, {None}, {ACTIVE, INACTIVE},
          MatchEventTypes, SubFilters)

SpecSubs == Init /\ [][NextSubs]_vars

\* C10: create_subscription is an upsert keyed by (endpoint_id, event_type): there
\* is at most one subscription per (endpoint, event type); a call for an existing
\* pair returns the same subscription id with filter_conditions replaced by the new
\* value, repeating a call leaves the state unchanged, and a call for a new pair of
\* an existing endpoint adds one row.
C10_SubscriptionUpsert ==
    /\ [](\A a, b \in DOMAIN subscriptions :
            (/\ subscriptions[a].endpoint_id = subscriptions[b].endpoint_id
             /\ subscriptions[a].event_type = subscriptions[b].event_type) => a = b)
    /\ [][\A e \in 1..MaxEndpoints, t \in MatchEventTypes, f \in SubFilters :
            (e \in DOMAIN endpoints /\ create_subscription(e, t, f)) =>
                LET row == [endpoint_id |-> e, event_type |-> t, filter_conditions |-> f]
                    old == {s \in DOMAIN subscriptions :
                              /\ subscriptions[s].endpoint_id = e
                              /\ subscriptions[s].event_type = t}
                IN  /\ ret'.id # None
                    /\ subscriptions'[ret'.id[1]] = row
                    /\ \A s \in old : ret'.id = Some(s)
                    /\ DOMAIN subscriptions' = DOMAIN subscriptions \cup {ret'.id[1]}
                    /\ old = {} => ret'.id[1] \notin DOMAIN subscriptions
                    /\ \A s \in DOMAIN subscriptions \ {ret'.id[1]} :
                          subscriptions'[s] = subscriptions[s]
                    /\ (\E s \in old : subscriptions[s] = row) =>
                          subscriptions' = subscriptions]_vars

\* C10 witness: a call for the pair of the first of two subscriptions returned the
\* first one's id, and the row carries the filter of the call
C10_Witness ==
    /\ ret.op = "create_subscription"
    /\ ret.id = Some(1)
    /\ subscription_seq = 2
    /\ subscriptions[1].filter_conditions = Some([key |-> "y"])
    /\ subscriptions[2].endpoint_id = subscriptions[1].endpoint_id
    /\ subscriptions[2].filter_conditions = Some([key |-> "x"])

----------------------------------------------------------------------------
(* Endpoints that are created, subscribed, triggered and deleted.               *)

NextDelete ==
    \/ Admin(1..MaxEndpoints, {3}, {None}, {None}, {ACTIVE}, {"config.created"}, {None})
    \/ \E e \in 1..MaxEndpoints : delete_endpoint(e)
    \/ Events(1..MaxEndpoints, {"config.created"}, {EmptyDict})
    \/ Workers({Response(200, "OK")})

SpecDelete == Init /\ [][NextDelete]_vars

C12_TriggerIsFireAndForget ==
    [][ret'.op = "trigger_webhook" /\ ret' # ret =>
        LET created == DOMAIN deliveries' \ DOMAIN deliveries IN
        /\ {ret'.ids[i] : i \in 1..Len(ret'.ids)} = created
        /\ Len(ret'.ids) = Cardinality(created)
        /\ ret'.count = Cardinality(created)
        /\ ~ret'.raised
        /\ posts' = posts
        /\ \A d \in created :
              /\ deliveries'[d].attempt_count = 1
              /\ deliveries'[d].success = FALSE
              /\ deliveries'[d].completed_at = None
              /\ deliveries'[d].request_headers = None
              /\ Posts(d) = 0
              /\ CallsFor(tasks', d) = 1
              /\ \A t \in BagToSet(tasks') :
                    t.delivery_id = Some(d) => t.state = "scheduled" /\ t.id = None
        /\ \A t \in BagToSet(tasks) : tasks'[t] = tasks[t]]_vars

\* C12 witness: a trigger returned the ids of two deliveries, one per matched
\* endpoint; each has its executor call scheduled and neither has been posted
C12_Witness ==
    /\ ret.op = "trigger_webhook"
    /\ ret.ids = <<1, 2>>
    /\ \A d \in {1, 2} :
          /\ d \in DOMAIN deliveries
          /\ d \notin DOMAIN posts
          /\ deliveries[d].attempt_count = 1
          /\ ~deliveries[d].success
          /\ CallsFor(tasks, d) = 1
    /\ deliveries[1].endpoint_id # deliveries[2].endpoint_id

\* C13: retry_failed_deliveries invokes the delivery executor exactly once for each
\* delivery it selected and returns the number of deliveries it dispatched; the
\* count is fixed by the rows the sweep read, before any re-attempt is answered,
\* and a failing third-party endpoint never makes the sweep itself fail.
C13_SweepCountsDispatches ==
    [][retry_failed_deliveries =>
        LET selected ==
                {d \in DOMAIN deliveries :
                    /\ ~deliveries[d].success
                    /\ deliveries[d].attempt_count <
                          endpoints[deliveries[d].endpoint_id].retry_count
                    /\ \/ deliveries[d].next_retry_at = None
                       \/ deliveries[d].next_retry_at[1] <= now
                    /\ endpoints[deliveries[d].endpoint_id].status = "active"}
        IN  /\ ~ret'.raised
            /\ ret'.count = Cardinality(selected)
            /\ {ret'.ids[i] : i \in 1..Len(ret'.ids)} = selected
            /\ \A d \in selected : Dispatches(d)
            /\ \A d \in DOMAIN deliveries \ selected :
                  CallsFor(tasks', d) = CallsFor(tasks, d)
            /\ BagCardinality(tasks') = BagCardinality(tasks) + ret'.count
            /\ posts' = posts
            /\ \A d \in DOMAIN deliveries :
                  /\ deliveries'[d].success = deliveries[d].success
                  /\ deliveries'[d].response_status = deliveries[d].response_status]_vars

\* C13 witness: a sweep returned 2 for two deliveries whose first POSTs had failed,
\* one with an exception and one with status 300; both re-attempts are scheduled
\* and not yet posted
C13_Witness ==
    /\ ret.op = "retry_failed_deliveries"
    /\ ret.count = 2
    /\ ~ret.raised
    /\ \E a, b \in DOMAIN deliveries :
          /\ deliveries[a].response_status = Some(0)
          /\ deliveries[a].response_body = Some("timed out")
          /\ deliveries[b].response_status = Some(300)
          /\ Posts(a) = 1 /\ Posts(b) = 1
          /\ CallsFor(tasks, a) = 1 /\ CallsFor(tasks, b) = 1
          /\ \A t \in BagToSet(tasks) : t.state = "scheduled"

----------------------------------------------------------------------------
(* The endpoint registry and its list view: endpoints with and without a secret *)
(* are created, updated, deleted and listed.                                     *)

ListSecrets == {None, Some("s3cr3t")}

NextList ==
    \/ Admin(1..MaxEndpoints, {3}, ListSecrets, {None}, {ACTIVE, INACTIVE},
             {"config.created"}, {None})
    \/ \E e \in 1..MaxEndpoints : delete_endpoint(e)
    \/ \E status \in {None, Some(ACTIVE), Some(INACTIVE)}, skip \in {0, 1},
          limit \in {1, 100} :
          \E order \in Orders({e \in DOMAIN endpoints :
                                  status = None \/ endpoints[e].status = status[1]}) :
              get_webhook_endpoints(status, skip, limit, order)

SpecList == Init /\ [][NextList]_vars

\* C14: the response of GET /webhooks/endpoints never exposes an endpoint's secret:
\* for every stored endpoint, including those with a non-empty secret, the secret
\* field of each listed item is absent or null.
C14_ListOmitsSecret ==
    ret.op = "get_webhook_endpoints" =>
        \A i \in 1..Len(ret.http[1].body) : ret.http[1].body[i].secret = None

\* C15: POST /webhooks/trigger/{event_type} answers with HTTP status 202 and a body
\* {event_type, delivery_count, delivery_ids} in which delivery_ids is the list
\* returned by trigger_webhook and delivery_count equals its length.
C15_TriggerAnswers202 ==
    ret.op = "trigger_webhook" =>
        /\ ret.http # None
        /\ ret.http[1].status_code = 202
        /\ DOMAIN ret.http[1].body = {"event_type", "delivery_count", "delivery_ids"}
        /\ ret.http[1].body.event_type \in MatchEventTypes
        /\ ret.http[1].body.delivery_ids = ret.ids
        /\ ret.http[1].body.delivery_count = Len(ret.ids)

----------------------------------------------------------------------------
(* Test deliveries, to an endpoint that exists and to one that does not.        *)

TestPayloads == {[key |-> "x"], [_test |-> FALSE]}

InitTest == InitDelivery({3}, {None}, {None})

NextTest ==
    \/ \E e \in 1..MaxEndpoints, p \in TestPayloads : test_webhook(e, "config.created", p)
    \/ Workers({Response(200, "OK"), Response(500, "error")})

SpecTest == InitTest /\ [][NextTest]_vars

\* C16: test_webhook(endpoint_id, event_type, payload) on an existing endpoint
\* performs one delivery attempt on a new delivery record (attempt_count = 1) whose
\* payload is the user-supplied payload with _test set to true, and the attempt
\* completes on that record without counting another attempt; on a missing endpoint it
\* returns not-found, creates no delivery record and issues no POST.
C16_TestDelivery ==
    /\ [][\A e \in 1..MaxEndpoints, p \in TestPayloads :
            test_webhook(e, "config.created", p) =>
                IF e \in DOMAIN endpoints
                THEN LET created == DOMAIN deliveries' \ DOMAIN deliveries IN
                     /\ Cardinality(created) = 1
                     /\ \A d \in created :
                           /\ deliveries'[d].endpoint_id = e
                           /\ deliveries'[d].event_type = "config.created"
                           /\ deliveries'[d].attempt_count = 1
                           /\ deliveries'[d].payload =
                                 [k \in DOMAIN p \cup {"_test"} |->
                                     IF k = "_test" THEN TRUE ELSE p[k]]
                           /\ d \notin DOMAIN posts /\ posts'[d] = 1
                           /\ \E t \in BagToSet(tasks') :
                                 /\ t.id = Some(d) /\ t.state = "posting"
                                 /\ t.delivery_id = None
                                 /\ tasks'[t] = 1
                     /\ \A d \in DOMAIN deliveries : deliveries'[d] = deliveries[d]
                     /\ \A d \in DOMAIN posts : posts'[d] = posts[d]
                     /\ BagCardinality(tasks') = BagCardinality(tasks) + 1
                ELSE /\ ret'.op = "test_webhook" /\ ret'.id = None /\ ~ret'.raised
                     /\ deliveries' = deliveries
                     /\ posts' = posts
                     /\ tasks' = tasks]_vars
    /\ [][\A t \in BagToSet(tasks) :
            (/\ t.delivery_id = None /\ t.state = "posting"
             /\ CopiesIn(t, tasks') < CopiesIn(t, tasks)) =>
                /\ ret'.op = "_deliver_webhook" /\ ret'.id = t.id
                /\ deliveries'[t.id[1]].completed_at # None
                /\ deliveries'[t.id[1]].attempt_count = deliveries[t.id[1]].attempt_count
                /\ posts' = posts]_vars

\* C16 witness: a test delivery with the user payload {_test: false} was posted once
\* and answered; its record has the payload {_test: true} and attempt_count 1
C16_Witness ==
    /\ ret.op = "_deliver_webhook"
    /\ ret.id # None
    /\ deliveries[ret.id[1]].payload = [k \in {"_test"} |-> TRUE]
    /\ deliveries[ret.id[1]].attempt_count = 1
    /\ deliveries[ret.id[1]].response_status = Some(200)
    /\ Posts(ret.id[1]) = 1
    /\ tasks = EmptyBag

----------------------------------------------------------------------------
(* The notifications of two recipients: created with and without an expiry,     *)
(* delivered, read, failed, counted, marked read and cleaned as time passes.     *)

Recipients == {"user1", "user2"}
ExpiresAts == {None, Some(0), Some(MaxNow), Some(2 * MaxNow)}

\* the table after create_notification and update_notification calls at time 0:
\* every row in any status, for either recipient, with or without an expiry
InitNotifications ==
    /\ endpoints = EmptyDict
    /\ subscriptions = EmptyDict
    /\ deliveries = EmptyDict
    /\ endpoint_seq = 0
    /\ subscription_seq = 0
    /\ delivery_seq = 0
    /\ tasks = EmptyBag
    /\ now = 0
    /\ ret = Ret("init", None, <<>>, 0)
    /\ posts = EmptyDict
    /\ reached_cap = {}
    /\ notification_seq = MaxNotifications
    /\ placeholder = [d \in DOMAIN deliveries |-> None]
    /\ Elsewhere
    /\ notifications \in
          [1..MaxNotifications ->
              {[NewNotification(r, x) EXCEPT
                    !.status = st,
                    !.delivered_at = IF st = DELIVERED THEN Some(0) ELSE None,
                    !.read_at = IF st = READ THEN Some(0) ELSE None] :
                  r \in Recipients, x \in ExpiresAts, st \in NotificationStatus}]

NextNotifications ==
    \/ \E r \in Recipients : mark_all_as_read(r)
    \/ \E r \in Recipients : get_unread_count(r)
    \/ clean_expired_notifications
    \/ Tick

SpecNotifications == InitNotifications /\ [][NextNotifications]_vars

\* C17: get_unread_count(recipient) equals the number of that recipient's
\* notifications whose status is pending or delivered and that are not expired
\* (expires_at null or later than now); read, failed and expired notifications and
\* other recipients' notifications are not counted.
C17_UnreadCount ==
    [][\A r \in Recipients :
        get_unread_count(r) =>
            /\ ret'.count =
                  Cardinality({n \in DOMAIN notifications :
                      /\ notifications[n].recipient_id = r
                      /\ \/ notifications[n].status = "pending"
                         \/ notifications[n].status = "delivered"
                      /\ \/ notifications[n].expires_at = None
                         \/ notifications[n].expires_at[1] > now})
            /\ notifications' = notifications]_vars

\* C17 witness: the count is 1 for a recipient with a delivered notification that
\* expires later, a pending one that expires exactly now and a failed one
C17_Witness ==
    /\ ret.op = "get_unread_count"
    /\ ret.count = 1
    /\ now = MaxNow
    /\ \E a, b, c \in DOMAIN notifications :
          /\ notifications[a].recipient_id = notifications[b].recipient_id
          /\ notifications[b].recipient_id = notifications[c].recipient_id
          /\ notifications[a].status = DELIVERED
          /\ notifications[a].expires_at = Some(2 * MaxNow)
          /\ notifications[b].status = PENDING
          /\ notifications[b].expires_at = Some(now)
          /\ notifications[c].status = FAILED

\* C18: mark_all_as_read(recipient) sets status = read and read_at on exactly that
\* recipient's notifications whose status was pending or delivered, returns their
\* number and leaves every other notification unchanged; immediately afterwards
\* get_unread_count(recipient) is 0.
C18_MarkAllAsRead ==
    [][\A r \in Recipients :
        mark_all_as_read(r) =>
            LET unread == {n \in DOMAIN notifications :
                              /\ notifications[n].recipient_id = r
                              /\ \/ notifications[n].status = "pending"
                                 \/ notifications[n].status = "delivered"}
            IN  /\ DOMAIN notifications' = DOMAIN notifications
                /\ ret'.count = Cardinality(unread)
                /\ \A n \in unread :
                      notifications'[n] = [notifications[n] EXCEPT !.status = "read",
                                                                   !.read_at = Some(now)]
                /\ \A n \in DOMAIN notifications \ unread :
                      notifications'[n] = notifications[n]
                /\ UnreadCount(r)' = 0]_vars

\* C18 witness: two notifications of one recipient, one of them pending and already
\* expired, were marked read at MaxNow, and the other recipient's pending one was not
C18_Witness ==
    /\ ret.op = "mark_all_as_read"
    /\ ret.count = 2
    /\ now = MaxNow
    /\ \E a, b, c \in DOMAIN notifications :
          /\ notifications[a].recipient_id = notifications[b].recipient_id
          /\ notifications[c].recipient_id # notifications[a].recipient_id
          /\ a # b
          /\ notifications[a].status = READ /\ notifications[a].read_at = Some(now)
          /\ notifications[a].expires_at = Some(0)
          /\ notifications[b].status = READ /\ notifications[b].read_at = Some(now)
          /\ notifications[b].delivered_at = Some(0)
          /\ notifications[c].status = PENDING /\ notifications[c].read_at = None

\* C19: clean_expired_notifications deletes exactly the notifications whose
\* expires_at is non-null and <= now, returns the number deleted, and leaves every
\* notification with null or future expires_at in place and unchanged.
C19_CleanExpired ==
    [][clean_expired_notifications =>
        LET expired == {n \in DOMAIN notifications :
                           /\ notifications[n].expires_at # None
                           /\ notifications[n].expires_at[1] <= now}
        IN  /\ DOMAIN notifications' = DOMAIN notifications \ expired
            /\ ret'.count = Cardinality(expired)
            /\ \A n \in DOMAIN notifications' : notifications'[n] = notifications[n]]_vars

\* C19 witness: a clean at MaxNow deleted one notification, and one without an
\* expiry and one that expires later are still there
C19_Witness ==
    /\ ret.op = "clean_expired_notifications"
    /\ ret.count = 1
    /\ now = MaxNow
    /\ Cardinality(DOMAIN notifications) = MaxNotifications - 1
    /\ \E a, b \in DOMAIN notifications :
          /\ notifications[a].expires_at = None
          /\ notifications[b].expires_at = Some(2 * MaxNow)

----------------------------------------------------------------------------
(* Retry until the cap: the endpoint stays active, sweeps keep being run and     *)
(* every executor call that is scheduled starts and is answered.                 *)

LiveRetryCount == 4

InitLive == InitDelivery({LiveRetryCount}, {None}, {None})

NextLive ==
    \/ Events({1}, {"config.created"}, {EmptyDict})
    \/ Workers({Response(200, "OK"), Response(500, "error")})

\* the retry route keeps being called, and the event loop runs every task it holds
FairLive ==
    /\ WF_vars(retry_failed_deliveries)
    /\ WF_vars(\E t \in BagToSet(tasks) : deliver_webhook_begin(t))
    /\ WF_vars(\E t \in BagToSet(tasks) :
                  \E o \in {Response(200, "OK"), Response(500, "error")} :
                      deliver_webhook_end(t, o))

SpecLive == InitLive /\ [][NextLive]_vars /\ FairLive

\* delivery d is settled: delivered or at its endpoint's retry limit, and no
\* executor call for it is outstanding
Settled(d) ==
    /\ d \in DOMAIN deliveries
    /\ \/ deliveries[d].success
       \/ deliveries[d].attempt_count >= endpoints[deliveries[d].endpoint_id].retry_count
    /\ ~InFlight(tasks, d)

\* C20: eventually retry until cap: on an endpoint that stays active, with sweeps
\* that keep being run and attempts that terminate, every delivery eventually has
\* success = true or attempt_count >= retry_count with no attempt outstanding, stays
\* so, and from then on no sweep dispatches it.
C20_EventuallyRetryUntilCap ==
    /\ \A d \in 1..MaxDeliveries :
          [](d \in DOMAIN deliveries => <>[]Settled(d))
    /\ [][\A d \in DOMAIN deliveries :
            Settled(d) => /\ CallsFor(tasks', d) = 0
                          /\ deliveries'[d] = deliveries[d]]_vars

\* C20 witness: a delivery that failed every time was retried until its
\* attempt_count reached the endpoint's retry_count, and is at rest
C20_Witness ==
    \E d \in DOMAIN deliveries :
        /\ Settled(d)
        /\ ~deliveries[d].success
        /\ deliveries[d].response_status = Some(500)
        /\ deliveries[d].attempt_count = LiveRetryCount
        /\ Posts(d) = LiveRetryCount - 1
        /\ ret.op = "retry_failed_deliveries"
        /\ ret.count = 0

----------------------------------------------------------------------------
(* The retry sweep and the executor around a restart of the process: deliveries *)
(* are triggered and tested, fail and succeed, are swept, and the process may    *)
(* die with retries scheduled or outstanding.                                    *)

SweepRetryCount == 3

InitSweep == InitDelivery({SweepRetryCount}, {None}, {None})

NextSweep ==
    \/ Events({1}, {"config.created"}, {EmptyDict})
    \/ Workers({Response(200, "OK"), Response(500, "error")})
    \/ crash

SpecSweep == InitSweep /\ [][NextSweep]_vars

\* a POST for delivery d is outstanding and the time of the placeholder that a
\* sweep wrote for d has not come
RetryOutstanding(d) ==
    /\ \E t \in BagToSet(tasks) : t.state = "posting" /\ t.id = Some(d)
    /\ placeholder[d] # None
    /\ now < placeholder[d][1]

\* C21: the placeholder next_retry_at = now + delay that a sweep writes before
\* dispatch stays in the row from the sweep's commit until the executor completes
\* the attempt: the start of the executor leaves it alone, and while the POST is
\* outstanding no sweep run before now + delay dispatches the delivery again.
C21_PlaceholderHeldWhileInFlight ==
    [][/\ \A t \in BagToSet(tasks) :
            (/\ deliver_webhook_begin(t)
             /\ Reuses(t)
             /\ deliveries[t.delivery_id[1]].next_retry_at # None) =>
                deliveries'[t.delivery_id[1]].next_retry_at =
                    deliveries[t.delivery_id[1]].next_retry_at
       /\ retry_failed_deliveries =>
            \A d \in DOMAIN deliveries : RetryOutstanding(d) => ~Dispatches(d)]_vars

\* C22: when a sweep at time t has dispatched a retry of delivery d with delay D
\* and that attempt has failed, no sweep at a time before t + D dispatches d again.
C22_BackoffSeparatesRetries ==
    [][retry_failed_deliveries =>
        \A d \in DOMAIN deliveries :
            (/\ Dispatches(d)
             /\ placeholder[d] # None
             /\ ~InFlight(tasks, d)) =>
                now >= placeholder[d][1]]_vars

\* the retry of delivery d was lost: the row holds the next_retry_at of a sweep
\* and no executor call for d exists
RetryLost(d) ==
    /\ deliveries[d].next_retry_at # None
    /\ ~InFlight(tasks, d)

----------------------------------------------------------------------------
(* Concurrent retry sweeps: retry_failed_deliveries suspends at every await, so  *)
(* invocations interleave with each other and with the executor between the      *)
(* query and the commit and dispatch of each row.                                *)

\* invocations of one operation in progress at the same time
MaxCalls == 2

\* the local variables of a retry_failed_deliveries call: `now`, the rows the query
\* returned (as loaded: id and attempt_count), those still to handle, retry_count
SweepFrame(t, rows) ==
    [op |-> "retry_failed_deliveries", now |-> t, failed_deliveries |-> rows,
     pending |-> rows, retry_count |-> 0]

RECURSIVE Loaded(_)
Loaded(ids) ==
    IF ids = <<>> THEN <<>>
    ELSE <<[id |-> Head(ids), attempt_count |-> deliveries[Head(ids)].attempt_count]>>
            \o Loaded(Tail(ids))

\* "now = datetime.utcnow()" and the query for the failed deliveries
retry_select(i) ==
    /\ i \notin DOMAIN frames
    /\ frames' = [j \in DOMAIN frames \cup {i} |->
                    IF j = i
                    THEN SweepFrame(now, Loaded(Ascending(failed_deliveries)))
                    ELSE frames[j]]
    /\ UNCHANGED <<endpoints, subscriptions, deliveries, endpoint_seq, subscription_seq,
                   delivery_seq, tasks, now, ret, posts>>
    /\ TrackHistory
    /\ UNCHANGED <<notifications, notification_seq, flag_vars, config_vars>>

\* (mutant) a row is handled only if it is still due when its turn comes
Handles_StillDue(row) ==
    /\ deliveries[row.id].endpoint_id \in DOMAIN endpoints
    /\ Due(deliveries[row.id].next_retry_at, now)

\* "if not endpoint: continue": nothing else is looked at before the dispatch
Handles(row) == deliveries[row.id].endpoint_id \in DOMAIN endpoints

\* one turn of the loop: load the endpoint, write and commit next_retry_at,
\* create the executor's task
retry_dispatch(i) ==
    /\ i \in DOMAIN frames
    /\ frames[i].op = "retry_failed_deliveries"
    /\ frames[i].pending # <<>>
    /\ LET row == Head(frames[i].pending)
           d == row.id
       IN  IF Handles(row)
           THEN /\ BagCardinality(tasks) < MaxTasks
                /\ deliveries' = [deliveries EXCEPT ![d].next_retry_at =
                                    Some(frames[i].now + RetryDelay(row.attempt_count))]
                /\ tasks' = tasks (+) SetToBag(
                        {Task("scheduled", Some(d), deliveries[d].endpoint_id,
                              deliveries[d].event_type, deliveries[d].payload,
                              endpoints[deliveries[d].endpoint_id].headers,
                              endpoints[deliveries[d].endpoint_id].secret)})
                /\ frames' = [frames EXCEPT ![i].pending = Tail(@),
                                            ![i].retry_count = @ + 1]
           ELSE /\ frames' = [frames EXCEPT ![i].pending = Tail(@)]
                /\ UNCHANGED <<deliveries, tasks>>
    /\ UNCHANGED <<endpoints, subscriptions, endpoint_seq, subscription_seq,
                   delivery_seq, now, ret, posts>>
    /\ TrackHistory
    /\ UNCHANGED <<notifications, notification_seq, flag_vars, config_vars>>

\* "return retry_count"
retry_return(i) ==
    /\ i \in DOMAIN frames
    /\ frames[i].op = "retry_failed_deliveries"
    /\ frames[i].pending = <<>>
    /\ frames' = [j \in DOMAIN frames \ {i} |-> frames[j]]
    /\ ret' = Ret("retry_failed_deliveries", None, <<>>, frames[i].retry_count)
    /\ UNCHANGED <<endpoints, subscriptions, deliveries, endpoint_seq, subscription_seq,
                   delivery_seq, tasks, now, posts>>
    /\ TrackHistory
    /\ UNCHANGED <<notifications, notification_seq, flag_vars, config_vars>>

InitRace == InitDelivery({SweepRetryCount}, {None}, {None})

NextRace ==
    \/ test_webhook(1, "config.created", EmptyDict)
    \/ \E t \in BagToSet(tasks) : deliver_webhook_begin(t)
    \/ \E t \in BagToSet(tasks) : deliver_webhook_end(t, Response(500, "error"))
    \/ \E i \in 1..MaxCalls : retry_select(i) \/ retry_dispatch(i) \/ retry_return(i)

SpecRace == InitRace /\ [][NextRace]_vars

\* C24: at most one retry in flight per delivery is not enforced.  An invocation
\* of retry_failed_deliveries dispatches every row its query returned (whose
\* endpoint exists), whatever another invocation has done to the row since; and
\* every executor call so dispatched POSTs the payload and increments
\* attempt_count.
C24_EverySelectedRowIsDispatched ==
    [][/\ \A i \in DOMAIN frames :
            (/\ retry_dispatch(i)
             /\ deliveries[Head(frames[i].pending).id].endpoint_id
                    \in DOMAIN endpoints) =>
                Dispatches(Head(frames[i].pending).id)
       /\ \A t \in BagToSet(tasks) :
            (deliver_webhook_begin(t) /\ Reuses(t)) =>
                /\ Posts(t.delivery_id[1])' = Posts(t.delivery_id[1]) + 1
                /\ deliveries'[t.delivery_id[1]].attempt_count =
                      deliveries[t.delivery_id[1]].attempt_count + 1]_vars

\* C24 witness: two concurrent invocations both loaded the same delivery, due for
\* one retry at attempt_count 1, both dispatched the executor for it, and both
\* executor calls have POSTed its payload: two POSTs outstanding, attempt_count 3
C24_Witness ==
    /\ DOMAIN frames = {1, 2}
    /\ \E d \in DOMAIN deliveries :
          /\ \A i \in {1, 2} :
                /\ frames[i].failed_deliveries = <<[id |-> d, attempt_count |-> 1]>>
                /\ frames[i].retry_count = 1
                /\ frames[i].now = now
          /\ \E t \in BagToSet(tasks) :
                /\ t.state = "posting"
                /\ t.delivery_id = Some(d)
                /\ t.payload = deliveries[d].payload
                /\ CopiesIn(t, tasks) = 2
          /\ deliveries[d].attempt_count = 3
          /\ Posts(d) = 3

----------------------------------------------------------------------------
(* Concurrent subscription requests: create_subscription suspends between the   *)
(* lookup of the existing row and the commit of its insert or update.            *)

\* the lookups of create_subscription, up to the await of the commit (a lookup
\* that finds two rows raises out of scalar_one_or_none and writes nothing)
subscription_check(i, endpoint_id, event_type, filter_conditions) ==
    /\ i \notin DOMAIN frames
    /\ endpoint_id \in DOMAIN endpoints
    /\ Cardinality(ExistingSubscription(endpoint_id, event_type)) <= 1
    /\ frames' = [j \in DOMAIN frames \cup {i} |->
                    IF j = i
                    THEN [op |-> "create_subscription",
                          endpoint_id |-> endpoint_id,
                          event_type |-> event_type,
                          filter_conditions |-> filter_conditions,
                          existing_subscription |->
                              ExistingSubscription(endpoint_id, event_type)]
                    ELSE frames[j]]
    /\ UNCHANGED <<endpoints, subscriptions, deliveries, endpoint_seq, subscription_seq,
                   delivery_seq, tasks, now, ret, posts>>
    /\ TrackHistory
    /\ UNCHANGED <<notifications, notification_seq, flag_vars, config_vars>>

\* the commit: the UPDATE of the row found, or the INSERT of a new one, which no
\* constraint of the table refuses
subscription_commit(i) ==
    /\ i \in DOMAIN frames
    /\ frames[i].op = "create_subscription"
    /\ LET f == frames[i] IN
       IF f.existing_subscription # {}
       THEN LET s == CHOOSE x \in f.existing_subscription : TRUE IN
            /\ subscriptions' = [subscriptions EXCEPT
                                    ![s].filter_conditions = f.filter_conditions]
            /\ UNCHANGED subscription_seq
            /\ ret' = Ret("create_subscription", Some(s), <<>>, 0)
       ELSE /\ subscription_seq < MaxSubscriptions
            /\ subscription_seq' = subscription_seq + 1
            /\ subscriptions' =
                  [s \in DOMAIN subscriptions \cup {subscription_seq + 1} |->
                      IF s \in DOMAIN subscriptions THEN subscriptions[s]
                      ELSE [endpoint_id       |-> f.endpoint_id,
                            event_type        |-> f.event_type,
                            filter_conditions |-> f.filter_conditions]]
            /\ ret' = Ret("create_subscription", Some(subscription_seq + 1), <<>>, 0)
    /\ frames' = [j \in DOMAIN frames \ {i} |-> frames[j]]
    /\ UNCHANGED <<endpoints, deliveries, endpoint_seq, delivery_seq, tasks, now, posts>>
    /\ TrackHistory
    /\ UNCHANGED <<notifications, notification_seq, flag_vars, config_vars>>

NextSubscribe ==
    \/ endpoint_seq = 0 /\ create_endpoint(3, None, None)
    \/ \E i \in 1..MaxCalls, t \in MatchEventTypes, f \in SubFilters :
          subscription_check(i, 1, t, f)
    \/ \E i \in 1..MaxCalls : subscription_commit(i)
    \/ \E t \in MatchEventTypes :
          \E order \in Orders(Matches(t, [key |-> "x"])) :
              trigger_webhook(t, [key |-> "x"], order)

SpecSubscribe == Init /\ [][NextSubscribe]_vars

\* C25: also when create_subscription calls for the same endpoint and event type
\* interleave between the existence check and the insert, no two subscription
\* rows with the same endpoint_id and event_type exist, and so no trigger creates
\* two deliveries to one endpoint for one event.
C25_OneSubscriptionPerEndpointAndEvent ==
    /\ \A a, b \in DOMAIN subscriptions :
          (/\ subscriptions[a].endpoint_id = subscriptions[b].endpoint_id
           /\ subscriptions[a].event_type = subscriptions[b].event_type) => a = b
    /\ ret.op = "trigger_webhook" => ret.count <= 1

----------------------------------------------------------------------------
(* The audit trail of the request headers: the custom headers of the endpoint    *)
(* are changed between attempts, and the process may die with POSTs outstanding. *)

AuditHeaders == {None, Some([k \in {"X-Webhook-Event"} |-> "renamed"])}

InitAudit == InitDelivery({SweepRetryCount}, {None}, AuditHeaders)

NextAudit ==
    \/ \E h \in AuditHeaders : update_endpoint(1, "headers", h)
    \/ test_webhook(1, "config.created", EmptyDict)
    \/ Workers({Response(500, "error")})
    \/ crash

SpecAudit == InitAudit /\ [][NextAudit]_vars

\* the headers of the POST of call t name its row and its event type, unless the
\* custom headers of the call override these keys
NamesDelivery(t) ==
    LET sent == t.request_headers[1]
        custom == IF TruthyDict(t.headers) THEN DOMAIN t.headers[1] ELSE {}
    IN  /\ "X-Webhook-ID" \notin custom => sent["X-Webhook-ID"] = ToString(t.id[1])
        /\ "X-Webhook-Event" \notin custom => sent["X-Webhook-Event"] = t.event_type

\* C26 as stated: whenever a POST for delivery d is outstanding, d's stored
\* request_headers equal the headers of that POST, which carry X-Webhook-ID = d's
\* id and X-Webhook-Event = the event type unless custom headers override them.
C26_StoredHeadersAreThoseOfEveryPost ==
    \A t \in BagToSet(tasks) :
        t.state = "posting" => SentIsStored(t) /\ NamesDelivery(t)

\* C26, amended: the request headers of an attempt are committed to the delivery
\* record before its POST is issued, they name the delivery and the event type
\* unless custom headers override these keys, only the start of an attempt on
\* the same delivery replaces them, and a crash leaves them in place: the stored
\* request_headers are those of the latest POST issued for the delivery.
C26_StoredHeadersAreThoseOfLatestPost ==
    [][/\ \A u \in BagToSet(tasks') :
            (u.state = "posting" /\ CopiesIn(u, tasks') > CopiesIn(u, tasks)) =>
                /\ deliveries'[u.id[1]].request_headers = u.request_headers
                /\ NamesDelivery(u)
       /\ \A d \in DOMAIN deliveries :
            deliveries'[d].request_headers # deliveries[d].request_headers =>
                \E u \in BagToSet(tasks') :
                    /\ u.state = "posting"
                    /\ u.id = Some(d)
                    /\ CopiesIn(u, tasks') > CopiesIn(u, tasks)
       /\ crash => \A d \in DOMAIN deliveries :
                      deliveries'[d].request_headers = deliveries[d].request_headers]_vars

\* C26 witness: the process died with the POST of a retry outstanding, and the
\* row keeps the headers of that POST, built from the custom headers the endpoint
\* had when the retry was dispatched
C26_Witness ==
    /\ ret.op = "crash"
    /\ \E d \in DOMAIN deliveries :
          /\ Posts(d) = 2
          /\ deliveries[d].attempt_count = 2
          /\ deliveries[d].completed_at = Some(0)
          /\ now = MaxNow
          /\ deliveries[d].request_headers # None
          /\ deliveries[d].request_headers[1]["X-Webhook-ID"] = ToString(d)
          /\ deliveries[d].request_headers[1]["X-Webhook-Event"] = "renamed"
          /\ endpoints[1].headers = None

----------------------------------------------------------------------------
\* C27: no HTTP POST is ever issued to an endpoint whose status is not active at
\* the time of the POST, whether the delivery comes from trigger_webhook, from
\* retry_failed_deliveries, from test_webhook or from an executor call scheduled
\* before update_endpoint changed the status.
C27_PostsOnlyToActiveEndpoints ==
    [][\A d \in DOMAIN deliveries' :
        Posts(d)' > Posts(d) =>
            endpoints[deliveries'[d].endpoint_id].status = ACTIVE]_vars

----------------------------------------------------------------------------
(* Feature flags module: FeatureFlagsService *)

\* the attributes of a FeatureFlag row: its columns and those of BaseModel
FeatureFlagColumns ==
    {"id", "created_at", "updated_at", "key", "name", "description", "is_enabled",
     "targeting_rules", "created_by", "updated_by", "version"}

\* the last call's result: the value returned, or the exception raised
FlagRet(op, key, value, error) ==
    [op |-> op, key |-> key, value |-> value, raised |-> error # "", error |-> error]

\* redis_client.delete(cache_key)
invalidate_flag_cache(cache, flag_key) ==
    [k \in DOMAIN cache \ {flag_key} |-> cache[k]]

\* redis_client.set(cache_key, json.dumps(flag_data)); the TTL of 5 minutes is
\* longer than the time the model covers
cache_flag(cache, flag_key, enabled, rules) ==
    [k \in DOMAIN cache \cup {flag_key} |->
        IF k = flag_key THEN [enabled |-> enabled, rules |-> rules] ELSE cache[k]]

\* "rules.get(name, [])"
RuleList(rules, name) == IF name \in DOMAIN rules THEN rules[name] ELSE {}

\* FeatureFlagsService._evaluate_rules, for rules without a percentage
evaluate_rules(globally_enabled, rules, context) ==
    IF ~globally_enabled THEN FALSE
    ELSE IF ~TruthyDict(rules) THEN TRUE
    ELSE IF /\ TruthyStr(context.user_id)
            /\ context.user_id[1] \in RuleList(rules[1], "allowed_users") THEN TRUE
    ELSE IF /\ TruthyStr(context.group_id)
            /\ context.group_id[1] \in RuleList(rules[1], "allowed_groups") THEN TRUE
    ELSE FALSE

(* FeatureFlagsService.create_feature_flag *)
create_feature_flag(flag_key, is_enabled, targeting_rules) ==
    /\ IF flag_key \in DOMAIN feature_flags
       THEN /\ UNCHANGED flag_vars
            /\ ret' = FlagRet("create_feature_flag", flag_key, None, "ValueError")
       ELSE /\ feature_flags' =
                  [k \in DOMAIN feature_flags \cup {flag_key} |->
                      IF k = flag_key
                      THEN [description     |-> None,
                            is_enabled      |-> is_enabled,
                            targeting_rules |-> targeting_rules]
                      ELSE feature_flags[k]]
            /\ flag_cache' = invalidate_flag_cache(flag_cache, flag_key)
            /\ ret' = FlagRet("create_feature_flag", flag_key, None, "")
    /\ UNCHANGED <<webhook_vars, config_vars, now, notifications, notification_seq>>

\* "if 'enabled' in update_data or 'description' in update_data"
InvalidatesCache(update_data) ==
    "enabled" \in DOMAIN update_data \/ "description" \in DOMAIN update_data

(* FeatureFlagsService.update_feature_flag; update_data is                      *)
(* flag_update.dict(exclude_unset=True), a map from FeatureFlagUpdate fields     *)
update_feature_flag(flag_key, update_data) ==
    /\ IF flag_key \notin DOMAIN feature_flags
       THEN /\ UNCHANGED flag_vars
            /\ ret' = FlagRet("update_feature_flag", flag_key, None, "")
       ELSE /\ feature_flags' =
                  [feature_flags EXCEPT ![flag_key] =
                      [c \in DOMAIN @ |->
                          IF c \in DOMAIN update_data THEN update_data[c] ELSE @[c]]]
            /\ flag_cache' = IF InvalidatesCache(update_data)
                             THEN invalidate_flag_cache(flag_cache, flag_key)
                             ELSE flag_cache
            /\ ret' = FlagRet("update_feature_flag", flag_key, Some(TRUE), "")
    /\ UNCHANGED <<webhook_vars, config_vars, now, notifications, notification_seq>>

(* FeatureFlagsService.delete_feature_flag *)
delete_feature_flag(flag_key) ==
    /\ IF flag_key \notin DOMAIN feature_flags
       THEN /\ UNCHANGED flag_vars
            /\ ret' = FlagRet("delete_feature_flag", flag_key, Some(FALSE), "")
       ELSE /\ feature_flags' =
                  [k \in DOMAIN feature_flags \ {flag_key} |-> feature_flags[k]]
            /\ flag_cache' = invalidate_flag_cache(flag_cache, flag_key)
            /\ ret' = FlagRet("delete_feature_flag", flag_key, Some(TRUE), "")
    /\ UNCHANGED <<webhook_vars, config_vars, now, notifications, notification_seq>>

(* FeatureFlagsService.is_feature_enabled: the cached data if there is any, else *)
(* the row, read through the attributes `enabled` and `rules`                    *)
is_feature_enabled(flag_key, context) ==
    /\ IF flag_key \in DOMAIN flag_cache
       THEN /\ UNCHANGED flag_vars
            /\ ret' = FlagRet("is_feature_enabled", flag_key,
                              Some(evaluate_rules(flag_cache[flag_key].enabled,
                                                  flag_cache[flag_key].rules, context)),
                              "")
       ELSE IF flag_key \notin DOMAIN feature_flags
       THEN /\ UNCHANGED flag_vars
            /\ ret' = FlagRet("is_feature_enabled", flag_key, None, "ValueError")
       ELSE IF {"enabled", "rules"} \subseteq FeatureFlagColumns
       THEN /\ UNCHANGED feature_flags
            /\ flag_cache' = cache_flag(flag_cache, flag_key,
                                        feature_flags[flag_key].is_enabled,
                                        feature_flags[flag_key].targeting_rules)
            /\ ret' = FlagRet("is_feature_enabled", flag_key,
                              Some(evaluate_rules(feature_flags[flag_key].is_enabled,
                                                  feature_flags[flag_key].targeting_rules,
                                                  context)),
                              "")
       ELSE \* db_flag.enabled: FeatureFlag has no such attribute
            /\ UNCHANGED flag_vars
            /\ ret' = FlagRet("is_feature_enabled", flag_key, None, "AttributeError")
    /\ UNCHANGED <<webhook_vars, config_vars, now, notifications, notification_seq>>

\* Two flags are created, switched, retargeted, described, deleted and evaluated
\* for a targeted and an untargeted user.
FlagKeys == {"beta", "dark-mode"}
FlagRules == {None, Some([allowed_users |-> {"u1"}])}
FlagContexts ==
    {[user_id |-> Some("u1"), group_id |-> None],
     [user_id |-> Some("u2"), group_id |-> None]}
FlagUpdates ==
    {[is_enabled |-> TRUE], [is_enabled |-> FALSE],
     [description |-> Some("rollout")]}
        \cup {[targeting_rules |-> r] : r \in FlagRules}

NextFlags ==
    \/ \E k \in FlagKeys, e \in BOOLEAN, r \in FlagRules : create_feature_flag(k, e, r)
    \/ \E k \in FlagKeys, u \in FlagUpdates : update_feature_flag(k, u)
    \/ \E k \in FlagKeys : delete_feature_flag(k)
    \/ \E k \in FlagKeys, c \in FlagContexts : is_feature_enabled(k, c)

SpecFlags == Init /\ [][NextFlags]_vars

\* C28: after update_feature_flag or delete_feature_flag has committed a change
\* to a flag, the next is_feature_enabled call for that key returns what the rules
\* of the current database row evaluate to, or reports not-found for a deleted
\* flag; no cache entry written before the change is used.
C28_EvaluationFollowsDatabase ==
    [][\A k \in FlagKeys, c \in FlagContexts :
        (/\ ret.op \in {"update_feature_flag", "delete_feature_flag"}
         /\ ret.key = k
         /\ is_feature_enabled(k, c)) =>
            IF k \in DOMAIN feature_flags
            THEN /\ ~ret'.raised
                 /\ ret'.value =
                        Some(evaluate_rules(feature_flags[k].is_enabled,
                                            feature_flags[k].targeting_rules, c))
            ELSE ret'.error = "ValueError"]_vars

----------------------------------------------------------------------------
(* Configuration module: ConfigService *)

\* the fields of the request bodies
ConfigItemCreateFields == {"key", "value", "description", "is_enabled", "scope_id"}
ConfigItemUpdateFields == {"value", "description", "is_enabled"}

\* the scopes init_db creates: system, auth, logging, notifications
ConfigScopes == 1..4

\* the last call's result: the id of the item returned, or the exception raised
ConfigRet(op, id, key, value, error) ==
    [op |-> op, id |-> id, key |-> key, value |-> value, raised |-> error # "",
     error |-> error]

\* a confighistory row
NewConfigHistory(config_id, version, value) ==
    [id        |-> Cardinality(config_history) + 1,
     config_id |-> config_id,
     version   |-> version,
     value     |-> value]

(* ConfigService.create_config_item: the scope lookup, then the ConfigItem built *)
(* from the request body, is_secret among the fields read                        *)
create_config_item(scope_id, key, value) ==
    /\ IF scope_id \notin ConfigScopes
       THEN /\ UNCHANGED config_vars
            /\ ret' = ConfigRet("create_config_item", None, key, value, "HTTP 404")
       ELSE IF "is_secret" \notin ConfigItemCreateFields
       THEN \* item.is_secret: ConfigItemCreate has no such field
            /\ UNCHANGED config_vars
            /\ ret' = ConfigRet("create_config_item", None, key, value, "AttributeError")
       ELSE IF \E i \in DOMAIN config_items :
                  config_items[i].scope_id = scope_id /\ config_items[i].key = key
       THEN \* IntegrityError: uix_config_scope_key
            /\ UNCHANGED config_vars
            /\ ret' = ConfigRet("create_config_item", None, key, value, "HTTP 409")
       ELSE LET id == Cardinality(DOMAIN config_items) + 1 IN
            /\ config_items' =
                  [i \in DOMAIN config_items \cup {id} |->
                      IF i = id
                      THEN [key |-> key, value |-> value, scope_id |-> scope_id,
                            version |-> 1]
                      ELSE config_items[i]]
            /\ config_history' = config_history \cup {NewConfigHistory(id, 1, value)}
            /\ ret' = ConfigRet("create_config_item", Some(id), key, value, "")
    /\ UNCHANGED <<webhook_vars, flag_vars, now, notifications, notification_seq>>

(* ConfigService.update_config_item: the history entry of the old value and the  *)
(* new value and version are pending in the session when is_secret is read from  *)
(* the request body; only db.commit() would write them                           *)
update_config_item(item_id, value) ==
    /\ IF item_id \notin DOMAIN config_items
       THEN /\ UNCHANGED config_vars
            /\ ret' = ConfigRet("update_config_item", None, "", value, "HTTP 404")
       ELSE IF "is_secret" \notin ConfigItemUpdateFields
       THEN \* item_update.is_secret: ConfigItemUpdate has no such field
            /\ UNCHANGED config_vars
            /\ ret' = ConfigRet("update_config_item", None, config_items[item_id].key,
                                value, "AttributeError")
       ELSE /\ config_history' = config_history \cup
                  {NewConfigHistory(item_id, config_items[item_id].version,
                                    config_items[item_id].value)}
            /\ config_items' = [config_items EXCEPT ![item_id].value = value,
                                                    ![item_id].version = @ + 1]
            /\ ret' = ConfigRet("update_config_item", Some(item_id),
                                config_items[item_id].key, value, "")
    /\ UNCHANGED <<webhook_vars, flag_vars, now, notifications, notification_seq>>

\* Items are created in existing and missing scopes and updated, in a database
\* that may hold items written by other means than this service.
MaxConfigItems == 2
ConfigKeys == {"timeout", "theme"}
ConfigValues == {"10", "20"}

InitConfig ==
    /\ endpoints = EmptyDict
    /\ subscriptions = EmptyDict
    /\ deliveries = EmptyDict
    /\ endpoint_seq = 0
    /\ subscription_seq = 0
    /\ delivery_seq = 0
    /\ tasks = EmptyBag
    /\ now = 0
    /\ ret = Ret("init", None, <<>>, 0)
    /\ posts = EmptyDict
    /\ reached_cap = {}
    /\ notifications = EmptyDict
    /\ notification_seq = 0
    /\ placeholder = EmptyDict
    /\ frames = EmptyDict
    /\ feature_flags = EmptyDict
    /\ flag_cache = EmptyDict
    /\ \E n \in 0..MaxConfigItems :
          config_items \in
              [1..n -> [key : ConfigKeys, value : ConfigValues, scope_id : {1},
                        version : {1}]]
    /\ \A i, j \in DOMAIN config_items :
          config_items[i].key = config_items[j].key => i = j
    /\ config_history = {}

NextConfig ==
    \/ \E sc \in {1, 5}, k \in ConfigKeys, v \in ConfigValues :
          create_config_item(sc, k, v)
    \/ \E i \in 1..MaxConfigItems, v \in ConfigValues : update_config_item(i, v)

SpecConfig == InitConfig /\ [][NextConfig]_vars

\* C29: create_config_item creates the item with version 1 and one history entry
\* (version 1, the initial value); update_config_item increments the version by
\* exactly 1 and appends exactly one history entry with the value and version
\* from before the update; and no two history entries of one item carry the same
\* version.
C29_ConfigVersioning ==
    [][/\ \A sc \in ConfigScopes, k \in ConfigKeys, v \in ConfigValues :
            (/\ create_config_item(sc, k, v)
             /\ ~\E i \in DOMAIN config_items :
                    config_items[i].scope_id = sc /\ config_items[i].key = k) =>
                \E id \in DOMAIN config_items' \ DOMAIN config_items :
                    /\ config_items'[id].version = 1
                    /\ config_items'[id].value = v
                    /\ \E h \in config_history' :
                          /\ {g \in config_history' : g.config_id = id} = {h}
                          /\ h.version = 1
                          /\ h.value = v
       /\ \A i \in DOMAIN config_items, v \in ConfigValues :
            update_config_item(i, v) =>
                /\ config_items'[i].version = config_items[i].version + 1
                /\ \E h \in config_history' \ config_history :
                      /\ config_history' = config_history \cup {h}
                      /\ h.config_id = i
                      /\ h.version = config_items[i].version
                      /\ h.value = config_items[i].value
       /\ \A g, h \in config_history' :
            (g.config_id = h.config_id /\ g.version = h.version) => g = h]_vars

----------------------------------------------------------------------------
(* The boundary of expiry: two notifications that expire before, at and after    *)
(* the time of the calls are listed, counted and cleaned.                        *)

ExpiryRows == 2

InitExpiry ==
    /\ endpoints = EmptyDict
    /\ subscriptions = EmptyDict
    /\ deliveries = EmptyDict
    /\ endpoint_seq = 0
    /\ subscription_seq = 0
    /\ delivery_seq = 0
    /\ tasks = EmptyBag
    /\ now = 0
    /\ ret = Ret("init", None, <<>>, 0)
    /\ posts = EmptyDict
    /\ reached_cap = {}
    /\ notification_seq = ExpiryRows
    /\ placeholder = EmptyDict
    /\ Elsewhere
    /\ notifications \in
          [1..ExpiryRows ->
              {[NewNotification(r, x) EXCEPT
                    !.status = st,
                    !.read_at = IF st = READ THEN Some(0) ELSE None] :
                  r \in Recipients, x \in ExpiresAts, st \in {PENDING, READ}}]

NextExpiry ==
    \/ \E r \in {None} \cup {Some(x) : x \in Recipients} :
          get_notifications(r, None, FALSE)
    \/ \E r \in Recipients : get_unread_count(r)
    \/ clean_expired_notifications
    \/ Tick

SpecExpiry == InitExpiry /\ [][NextExpiry]_vars

\* C30: expiry is judged by one boundary in every operation.  At any time every
\* notification is either listed by get_notifications (include_expired = false)
\* and counted by get_unread_count when unread - expires_at null or > now - or
\* deleted by clean_expired_notifications - expires_at non-null and <= now -,
\* never both and never neither.
C30_OneExpiryBoundary ==
    [][LET live == {n \in DOMAIN notifications :
                      \/ notifications[n].expires_at = None
                      \/ notifications[n].expires_at[1] > now}
           of(r) == {n \in DOMAIN notifications : notifications[n].recipient_id = r}
           listed == {ret'.ids[k] : k \in DOMAIN ret'.ids}
           deleted == DOMAIN notifications \ DOMAIN notifications'
       IN  /\ get_notifications(None, None, FALSE) =>
                /\ listed = live
                /\ listed \cap ExpiredNotifications = {}
                /\ listed \cup ExpiredNotifications = DOMAIN notifications
           /\ \A r \in Recipients :
                /\ get_notifications(Some(r), None, FALSE) => listed = live \cap of(r)
                /\ get_unread_count(r) =>
                      ret'.count = Cardinality(
                          {n \in ListedNotifications(Some(r), None, FALSE) :
                              notifications[n].status \in {PENDING, DELIVERED}})
           /\ clean_expired_notifications =>
                /\ deleted = DOMAIN notifications \ live
                /\ deleted \cap ListedNotifications(None, None, FALSE) = {}
                /\ deleted \cup ListedNotifications(None, None, FALSE)
                      = DOMAIN notifications]_vars

\* C30 witness: at the very time a notification expires it is no longer listed,
\* the clean would delete it, and the other notification, which expires later, is
\* listed and would be kept
C30_Witness ==
    /\ ret.op = "get_notifications"
    /\ now = MaxNow
    /\ \E a, b \in DOMAIN notifications :
          /\ notifications[a].expires_at = Some(now)
          /\ notifications[b].expires_at = Some(2 * MaxNow)
          /\ ret.ids = <<b>>
          /\ ExpiredNotifications = {a}
          /\ UnreadCount(notifications[a].recipient_id) = 0

====
